---- MODULE Spec2Model ----
(***************************************************************************)
(* FoodVision AI: the "analyze a food photo" path.                         *)
(*                                                                         *)
(*   browser (src/app.js)            server (src/server.js)     provider   *)
(*   analyzeImageWithAI  --GET /api/config-->  config handler              *)
(*                       --POST /api/analyze-> analyze handler --fetch-->  *)
(*                                             analyzeWithGemini /         *)
(*                                             analyzeWithPerplexity       *)
(*                                                                         *)
(* JavaScript values are modelled by what the code can observe of them:    *)
(* strings as sequences of characters (startsWith, length), JSON values as *)
(* tagged records, a thrown exception as a completion of kind "throw".     *)
(***************************************************************************)
EXTENDS Integers, Sequences, FiniteSets, TLC

\* ------------------------------------------------------------------ bounds
\* Longest provider reply text, in lexical tokens.
MaxTextLen == 4
\* Math.random() is drawn from RandRes equal bands of [0, 1), each stood
\* for by its midpoint (2k + 1) / (2 * RandRes), k \in 0..RandRes-1.
RandRes == 10
\* Longest API key tried, in characters (the placeholder key has 45).
MaxKeyLen == 46
\* Clicks on the enable-camera button followed per page.
MaxInits == 2
\* loadedmetadata and error events of the video element followed per
\* waitForVideoLoad call.
MaxEvents == 2
\* Clicks on the capture button followed per page.
MaxRuns == 2

\* ------------------------------------------------------- program constants
\* apiKey.length > 20
MinKeyLength == 20
\* Math.random() > 0.7, in tenths
MockThresholdTenths == 7

\* --------------------------------------------------------------- JS values
\* A string-or-undefined value (process.env.X, a JSON string member).
Undef == [def |-> FALSE, s |-> <<>>]
Str(chars) == [def |-> TRUE, s |-> chars]
\* JavaScript truthiness of a string-or-undefined value: undefined and ""
\* are falsy.
Truthy(x) == x.def /\ x.s # <<>>

\* String.prototype.startsWith
StartsWith(chars, prefix) ==
    /\ Len(chars) >= Len(prefix)
    /\ SubSeq(chars, 1, Len(prefix)) = prefix

Repeat(c, n) == [i \in 1..n |-> c]

\* The sentinel for an undefined provider name (provider names are only
\* ever compared for equality, so they stay TLA+ strings).
NoProvider == "<undefined>"
\* a || b  for provider names
OrElse(a, b) == IF a = NoProvider \/ a = "" THEN b ELSE a

\* A JSON value: t is its JavaScript type; a number is kept in tenths
\* (n = 25 is 2.5), a boolean as n \in {0,1}, an array by its length.
Absent == [t |-> "absent", n |-> 0, s |-> ""]
JNull == [t |-> "null", n |-> 0, s |-> ""]
JBool(b) == [t |-> "bool", n |-> IF b THEN 1 ELSE 0, s |-> ""]
JNum(tenths) == [t |-> "num", n |-> tenths, s |-> ""]
JStr(str) == [t |-> "str", n |-> 0, s |-> str]
JArr(len) == [t |-> "arr", n |-> len, s |-> ""]

JTrue == JBool(TRUE)
JFalse == JBool(FALSE)

\* JavaScript truthiness of a JSON value.
JTruthy(v) ==
    CASE v.t \in {"absent", "null"} -> FALSE
      [] v.t \in {"bool", "num"} -> v.n # 0
      [] v.t = "str" -> v.s # ""
      [] OTHER -> TRUE

\* A JSON object over the member names the code reads or writes; a member
\* that is not there is Absent.
EmptyObj ==
    [ foodDetected |-> Absent, rating |-> Absent, score |-> Absent,
      healthScore |-> Absent, message |-> Absent, pros |-> Absent,
      cons |-> Absent, recommendations |-> Absent, error |-> Absent ]

MemberNames == DOMAIN EmptyObj

\* Completions of a (possibly async) function: a returned value or a thrown
\* exception (a rejected promise).
Ret(v) == [kind |-> "return", val |-> v]
Throw(m) == [kind |-> "throw", val |-> m]

\* ------------------------------------------------------------ API keys
cAIza == <<"A", "I", "z", "a">>
cPplx == <<"p", "p", "l", "x", "-">>

\* 'pplx-xxxxxxxxxxxxxxxxxxxxxxxxxxxxxxxxxxxxxxxx'
PerplexityPlaceholder == cPplx \o Repeat("x", 40)

\* 'AIzaSyTESTKEY1234567890'
GeminiTestKey ==
    cAIza \o <<"S", "y", "T", "E", "S", "T", "K", "E", "Y">>
          \o <<"1", "2", "3", "4", "5", "6", "7", "8", "9", "0">>

\* A Perplexity format check that takes a key of exactly 20 characters.
Server_isValidAPIKeyAtLeast(apiKey) ==
    /\ Truthy(apiKey)
    /\ apiKey.s # PerplexityPlaceholder
    /\ StartsWith(apiKey.s, cPplx)
    /\ Len(apiKey.s) >= MinKeyLength

\* server.js isValidAPIKey(apiKey): the Perplexity format check (the
\* truthiness of what it returns).
Server_isValidAPIKey(apiKey) ==
    /\ Truthy(apiKey)
    /\ apiKey.s # PerplexityPlaceholder
    /\ StartsWith(apiKey.s, cPplx)
    /\ Len(apiKey.s) > MinKeyLength

\* server.js isValidGeminiAPIKey(apiKey)
isValidGeminiAPIKey(apiKey) ==
    /\ Truthy(apiKey)
    /\ StartsWith(apiKey.s, cAIza)
    /\ Len(apiKey.s) > MinKeyLength

\* A client-side key check that only asks for a key to be there.
App_isValidAPIKeyPresentOnly(apiKey, provider) == Truthy(apiKey)

\* A client-side check that takes every provider other than 'perplexity'
\* for Gemini.
App_isValidAPIKeyGeminiElse(apiKey, provider) ==
    IF ~Truthy(apiKey) THEN FALSE
    ELSE IF provider = "perplexity"
    THEN /\ apiKey.s # PerplexityPlaceholder
         /\ StartsWith(apiKey.s, cPplx)
         /\ Len(apiKey.s) > MinKeyLength
    ELSE StartsWith(apiKey.s, cAIza) /\ Len(apiKey.s) > MinKeyLength

\* app.js isValidAPIKey(apiKey, provider = 'gemini'): the default applies to
\* an undefined argument only.
App_isValidAPIKey(apiKey, provider) ==
    LET p == IF provider = NoProvider THEN "gemini" ELSE provider
    IN  IF ~Truthy(apiKey) THEN FALSE
        ELSE IF p = "gemini"
             THEN StartsWith(apiKey.s, cAIza) /\ Len(apiKey.s) > MinKeyLength
             ELSE /\ apiKey.s # PerplexityPlaceholder
                  /\ StartsWith(apiKey.s, cPplx)
                  /\ Len(apiKey.s) > MinKeyLength

\* ------------------------------------------------------- mock analysis
NoFoodMessage == "No food detected in this image."
UnableToDetermineMessage == "Unable to determine if food is present."
UnableToAnalyzeMessage == "Unable to analyze image."
ErrorAnalyzingMessage == "Error analyzing image."

\* app.js getMockAnalysisResult: the mockData catalog (index from 0).
mockData ==
    << [EmptyObj EXCEPT !.foodDetected = JTrue, !.rating = JNum(10),
                        !.healthScore = JNum(920), !.pros = JArr(5),
                        !.cons = JArr(2), !.recommendations = JArr(2)],
       [EmptyObj EXCEPT !.foodDetected = JTrue, !.rating = JNum(20),
                        !.healthScore = JNum(880), !.pros = JArr(5),
                        !.cons = JArr(2), !.recommendations = JArr(2)],
       [EmptyObj EXCEPT !.foodDetected = JTrue, !.rating = JNum(30),
                        !.healthScore = JNum(750), !.pros = JArr(4),
                        !.cons = JArr(3), !.recommendations = JArr(3)] >>

\* The draws of Math.random(): k stands for (2k + 1) / (2 * RandRes).
RandomDraws == 0..(RandRes - 1)
\* r > 0.7
ExceedsThreshold(k) == (2 * k + 1) * 10 > MockThresholdTenths * 2 * RandRes
\* Math.floor(r * n)
FloorScaled(k, n) == ((2 * k + 1) * n) \div (2 * RandRes)

\* A mock generator with the test of its first draw turned around.
getMockAnalysisResultInverted(r1, r2) ==
    IF ExceedsThreshold(r1)
    THEN [EmptyObj EXCEPT !.foodDetected = JFalse,
                          !.message = JStr(NoFoodMessage)]
    ELSE mockData[FloorScaled(r2, Len(mockData)) + 1]

\* app.js getMockAnalysisResult(), with its two Math.random() draws r1, r2:
\* shouldDetectFood = r1 > 0.7; index = floor(r2 * mockData.length).
getMockAnalysisResult(r1, r2) ==
    LET shouldDetectFood == ExceedsThreshold(r1)
    IN  IF ~shouldDetectFood
        THEN [EmptyObj EXCEPT !.foodDetected = JFalse,
                              !.message = JStr(NoFoodMessage)]
        ELSE mockData[FloorScaled(r2, Len(mockData)) + 1]

\* Every value getMockAnalysisResult can return.
MockResults == { getMockAnalysisResult(r1, r2) : r1, r2 \in RandomDraws }

\* ------------------------------------------------ provider reply text
\* The reply text of a model, as lexical tokens: a run of prose, an opening
\* or closing brace, or one complete "name": value member (separators are
\* part of the member token, so a brace-delimited run of member tokens is
\* well-formed JSON and nothing else is).
Prose == [c |-> "prose", k |-> "", v |-> Absent]
LBrace == [c |-> "{", k |-> "", v |-> Absent]
RBrace == [c |-> "}", k |-> "", v |-> Absent]
Member(k, v) == [c |-> "member", k |-> k, v |-> v]

\* String.prototype.match(/\{[\s\S]*\}/): leftmost '{', then greedily to
\* the last '}' of the text. [found, from, to]
MatchBraces(text) ==
    LET opens == { i \in 1..Len(text) : text[i].c = "{" }
        first == CHOOSE i \in opens : \A j \in opens : i <= j
        closes == { i \in 1..Len(text) : text[i].c = "}" /\ i > first }
        last == CHOOSE i \in closes : \A j \in closes : j <= i
    IN  IF opens = {} THEN [found |-> FALSE, span |-> <<>>]
        ELSE IF closes = {} THEN [found |-> FALSE, span |-> <<>>]
        ELSE [found |-> TRUE, span |-> SubSeq(text, first, last)]

\* JSON.parse of a matched span (it starts with '{' and ends with '}'): it
\* throws unless everything between the braces is members; of a repeated
\* member name the last value stands.
JSONParse(span) ==
    LET inner == SubSeq(span, 2, Len(span) - 1)
        wellFormed == \A i \in 1..Len(inner) : inner[i].c = "member"
        valueOf(k) ==
            LET at == { i \in 1..Len(inner) : inner[i].k = k }
            IN  IF at = {} THEN Absent
                ELSE inner[CHOOSE i \in at : \A j \in at : j <= i].v
    IN  IF wellFormed
        THEN Ret([k \in MemberNames |-> valueOf(k)])
        ELSE Throw("SyntaxError")

\* ------------------------------------------------- response normalizer
\* A normalizer that hands every parsed object back as it is.
ParseAnalysisTextPassAll(analysisText) ==
    IF ~analysisText.isString THEN Ret([EmptyObj EXCEPT
            !.foodDetected = JFalse, !.message = JStr(ErrorAnalyzingMessage)])
    ELSE LET m == MatchBraces(analysisText.text)
         IN  IF m.found /\ JSONParse(m.span).kind = "return"
             THEN Ret(JSONParse(m.span).val)
             ELSE Ret([EmptyObj EXCEPT !.foodDetected = JFalse,
                           !.message = JStr(UnableToAnalyzeMessage)])

\* A normalizer with one message for every text it cannot read.
ParseAnalysisTextOneMessage(analysisText) ==
    LET unable == Ret([EmptyObj EXCEPT !.foodDetected = JFalse,
                           !.message = JStr(UnableToAnalyzeMessage)])
        analysisMatch == MatchBraces(analysisText.text)
        parsed == JSONParse(analysisMatch.span)
    IN  IF ~analysisText.isString THEN unable
        ELSE IF ~analysisMatch.found THEN unable
        ELSE IF parsed.kind = "throw" THEN unable
        ELSE IF parsed.val.foodDetected.t = "bool" THEN Ret(parsed.val)
        ELSE Ret([EmptyObj EXCEPT !.foodDetected = JFalse,
                      !.message = JStr(UnableToDetermineMessage)])

\* A normalizer that tests foodDetected for truthiness, not for identity
\* with true and false.
ParseAnalysisTextTruthy(analysisText) ==
    LET analysisMatch == MatchBraces(analysisText.text)
        parsed == JSONParse(analysisMatch.span)
    IN  IF ~analysisText.isString
        THEN Ret([EmptyObj EXCEPT !.foodDetected = JFalse,
                      !.message = JStr(ErrorAnalyzingMessage)])
        ELSE IF ~analysisMatch.found
        THEN Ret([EmptyObj EXCEPT !.foodDetected = JFalse,
                      !.message = JStr(UnableToAnalyzeMessage)])
        ELSE IF parsed.kind = "throw"
        THEN Ret([EmptyObj EXCEPT !.foodDetected = JFalse,
                      !.message = JStr(ErrorAnalyzingMessage)])
        ELSE IF parsed.val.foodDetected = JFalse THEN Ret(parsed.val)
        ELSE IF JTruthy(parsed.val.foodDetected)
        THEN Ret([parsed.val EXCEPT !.foodDetected = JTrue])
        ELSE Ret([EmptyObj EXCEPT !.foodDetected = JFalse,
                      !.message = JStr(UnableToDetermineMessage)])

\* server.js analyzeWithGemini 392-427 and analyzeWithPerplexity 533-568
\* (the same try block): analysisText is [isString, text]; calling .match
\* on a value that is no string throws inside the try.
ParseAnalysisText(analysisText) ==
    IF ~analysisText.isString
    THEN \* TypeError: analysisText.match is not a function -> catch
         Ret([EmptyObj EXCEPT !.foodDetected = JFalse,
                              !.message = JStr(ErrorAnalyzingMessage)])
    ELSE LET analysisMatch == MatchBraces(analysisText.text)
             parsed == JSONParse(analysisMatch.span)
         IN  IF analysisMatch.found
             THEN IF parsed.kind = "throw"
                  THEN \* catch (error)
                       Ret([EmptyObj EXCEPT !.foodDetected = JFalse,
                                !.message = JStr(ErrorAnalyzingMessage)])
                  ELSE IF parsed.val.foodDetected = JFalse
                       THEN Ret(parsed.val)
                  ELSE IF parsed.val.foodDetected = JTrue
                       THEN Ret(parsed.val)
                  ELSE Ret([EmptyObj EXCEPT !.foodDetected = JFalse,
                                !.message = JStr(UnableToDetermineMessage)])
             ELSE Ret([EmptyObj EXCEPT !.foodDetected = JFalse,
                           !.message = JStr(UnableToAnalyzeMessage)])

\* A reply of an AI provider to the server's fetch: the fetch rejects, or
\* a response arrives; body is what response.json() yields:
\*   "notJSON"        response.json() rejects
\*   "noPath"         JSON without candidates[0] / choices[0]
\*   "textAbsent"     the path is there up to its last member, which is not
\*   "textNotString"  the path ends in a number
\*   "text"           the path ends in the string `text`
ProviderReply(kind, ok, body, text) ==
    [kind |-> kind, ok |-> ok, body |-> body, text |-> text]

\* The continuation of analyzeWithGemini / analyzeWithPerplexity after the
\* fetch (server.js 373-428, 513-569), as a completion.
AfterProviderFetch(name, reply) ==
    IF reply.kind = "reject" THEN Throw("fetch failed")
    ELSE IF ~reply.ok THEN Throw(name \o " API failed")
    ELSE IF reply.body = "notJSON" THEN Throw("SyntaxError")
    ELSE IF reply.body = "noPath" THEN Throw("TypeError")
    ELSE ParseAnalysisText([isString |-> reply.body = "text",
                            text |-> reply.text])

analyzeWithGemini(reply) == AfterProviderFetch("Gemini", reply)

analyzeWithPerplexity(reply) == AfterProviderFetch("Perplexity", reply)

\* imageData as the handler sees it in req.body: missing, a string, or a
\* JSON number.
NoImage == [t |-> "undef", s |-> ""]
ImageStr(str) == [t |-> "str", s |-> str]
ImageNum == [t |-> "num", s |-> ""]
\* !imageData
ImageFalsy(imageData) ==
    imageData.t = "undef" \/ (imageData.t = "str" /\ imageData.s = "")

\* server.js 366: imageData.split(',') throws on a value that is no string.
GeminiRequestThrows(imageData) == imageData.t # "str"

\* -------------------------------------------------------- server routes
Response(status, body) == [status |-> status, body |-> body]
\* { error, message }
Envelope(error, message) ==
    [EmptyObj EXCEPT !.error = JStr(error), !.message = JStr(message)]

\* GET /api/config (server.js 65-83): the body the handler sends for the
\* environment e; JSON drops the members that are undefined.
ConfigRoute(e) ==
    [ isNull |-> FALSE,
      perplexityApiKey |-> e.PERPLEXITY_API_KEY,
      geminiApiKey |-> e.GEMINI_API_KEY,
      defaultProvider |-> OrElse(e.DEFAULT_AI_PROVIDER, "gemini") ]

\* A catch block that logs and sends nothing.
AnalyzeRoute_catchSilent(message) == <<>>

\* POST /api/analyze, catch (server.js 165-171): the responses it sends.
AnalyzeRoute_catch(message) ==
    << Response(500, Envelope("Analysis failed", message)) >>

\* A handler that serves demo data when the Gemini key is not configured.
AnalyzeRoute_geminiNotConfiguredMock ==
    Response(200, getMockAnalysisResult(0, 0))

\* server.js 147-150
AnalyzeRoute_geminiNotConfigured ==
    Response(400, Envelope("Gemini API key not configured",
                           "Please set a valid Gemini API key"))

\* A handler that does not look at imageData before it picks a provider.
AnalyzeRoute_validateNoImageCheck(body, e) ==
    IF body.provider = NoProvider \/ body.provider = "gemini"
    THEN IF ~isValidGeminiAPIKey(e.GEMINI_API_KEY)
         THEN << AnalyzeRoute_geminiNotConfigured >> ELSE <<>>
    ELSE IF ~Server_isValidAPIKey(e.PERPLEXITY_API_KEY)
         THEN << Response(400, Envelope("Perplexity API key not configured",
                              "Please set a valid Perplexity API key")) >>
         ELSE <<>>

\* POST /api/analyze, the early returns (server.js 134-160): the response
\* sent by the validation of the body and of the provider's key, if any.
AnalyzeRoute_validate(body, e) ==
    LET provider == IF body.provider = NoProvider THEN "gemini"
                    ELSE body.provider
    IN  IF ImageFalsy(body.imageData)
        THEN << Response(400, Envelope("Missing image data",
                             "Image data is required for analysis")) >>
        ELSE IF provider = "gemini"
        THEN IF ~isValidGeminiAPIKey(e.GEMINI_API_KEY)
             THEN << AnalyzeRoute_geminiNotConfigured >> ELSE <<>>
        ELSE IF ~Server_isValidAPIKey(e.PERPLEXITY_API_KEY)
             THEN << Response(400, Envelope("Perplexity API key not configured",
                                  "Please set a valid Perplexity API key")) >>
             ELSE <<>>

\* POST /api/analyze (server.js 132-162), from its entry to its first
\* await or its return: the responses sent, the provider fetch started
\* ("none" when there is none) with its key, and whether an exception
\* reached the catch block.
AnalyzeRoute_begin(body, e) ==
    LET provider == IF body.provider = NoProvider THEN "gemini"
                    ELSE body.provider
        early == AnalyzeRoute_validate(body, e)
    IN  IF early # <<>>
        THEN [ responses |-> early, fetch |-> "none", key |-> Undef,
               threw |-> FALSE ]
        ELSE IF provider = "gemini"
        THEN IF GeminiRequestThrows(body.imageData)
             THEN [ responses |-> AnalyzeRoute_catch("TypeError"),
                    fetch |-> "none", key |-> Undef, threw |-> TRUE ]
             ELSE [ responses |-> <<>>, fetch |-> "gemini",
                    key |-> e.GEMINI_API_KEY, threw |-> FALSE ]
        ELSE [ responses |-> <<>>, fetch |-> "perplexity",
               key |-> e.PERPLEXITY_API_KEY, threw |-> FALSE ]

\* POST /api/analyze (server.js 152, 161-171), resumed by the reply to the
\* provider fetch.
AnalyzeRoute_resume(fetched, reply) ==
    LET analysisResult == IF fetched = "gemini" THEN analyzeWithGemini(reply)
                          ELSE analyzeWithPerplexity(reply)
    IN  IF analysisResult.kind = "throw"
        THEN [ responses |-> AnalyzeRoute_catch(analysisResult.val),
               threw |-> TRUE ]
        ELSE [ responses |-> << Response(200, analysisResult.val) >>,
               threw |-> FALSE ]

\* --------------------------------------------------------------- client
\* What fetch('/api/config') and response.json() come to: the fetch rejects,
\* the body is no JSON, or it is the JSON value `json` (isNull for null).
NullConfig ==
    [ isNull |-> TRUE, perplexityApiKey |-> Undef, geminiApiKey |-> Undef,
      defaultProvider |-> NoProvider ]
\* {} (a JSON object with none of the members)
EmptyConfig == [NullConfig EXCEPT !.isNull = FALSE]

ConfigOutcome(kind, json) == [kind |-> kind, json |-> json]

\* A config loader without its try/catch.
getAPIConfigFromServerNoCatch(outcome) ==
    IF outcome.kind = "json" THEN Ret(outcome.json) ELSE Throw(outcome.kind)

\* app.js getAPIConfigFromServer (372-381)
getAPIConfigFromServer(outcome) ==
    IF outcome.kind = "reject" THEN Ret(NullConfig)
    ELSE IF outcome.kind = "notJSON" THEN Ret(NullConfig)
    ELSE Ret(outcome.json)

\* showNotification(title, message, instructions, type), by title and type
Notification(title, type) == [title |-> title, type |-> type]

\* What a stretch of analyzeImageWithAI between two awaits does: where the
\* function is afterwards ("awaitAnalyze", "resolved", "rejected"), the
\* value it resolved with and where that came from, the notifications shown
\* and the /api/analyze request bodies sent.
Step(pc, result, source, notes, sent, provider) ==
    [ pc |-> pc, result |-> result, source |-> source, notes |-> notes,
      sent |-> sent, provider |-> provider ]

\* const config = await this.getAPIConfigFromServer(), as the local holds
\* it (NullConfig when the call threw).
ConfigLocal(got) == IF got.kind = "throw" THEN NullConfig ELSE got.val

\* An orchestrator whose unconfigured fallback shows no notification.
analyzeImageWithAI_configSilent(outcome, imageData, r1, r2) ==
    LET got == getAPIConfigFromServer(outcome)
        provider == OrElse(got.val.defaultProvider, "gemini")
        apiKey == IF provider = "gemini" THEN got.val.geminiApiKey
                  ELSE got.val.perplexityApiKey
    IN  IF got.val.isNull \/ ~App_isValidAPIKey(apiKey, provider)
        THEN Step("resolved", getMockAnalysisResult(r1, r2), "mock", <<>>,
                  <<>>, provider)
        ELSE Step("awaitAnalyze", EmptyObj, "none", <<>>,
                  << [imageData |-> imageData, provider |-> provider] >>,
                  provider)

\* app.js analyzeImageWithAI (296-344): from the config fetch's outcome to
\* the fetch of /api/analyze or the return of mock data.
analyzeImageWithAI_config(outcome, imageData, r1, r2) ==
    LET got == getAPIConfigFromServer(outcome)
        config == got.val
        provider == OrElse(config.defaultProvider, "gemini")
        apiKey == IF provider = "gemini" THEN config.geminiApiKey
                  ELSE config.perplexityApiKey
    IN  IF got.kind = "throw"
        THEN Step("rejected", EmptyObj, "none", <<>>, <<>>, NoProvider)
        ELSE IF config.isNull
        THEN Step("resolved", getMockAnalysisResult(r1, r2), "mock",
                  << Notification("Demo Mode", "warning") >>, <<>>,
                  NoProvider)
        ELSE IF ~App_isValidAPIKey(apiKey, provider)
        THEN Step("resolved", getMockAnalysisResult(r1, r2), "mock",
                  << Notification("Demo Mode", "warning") >>, <<>>,
                  provider)
        ELSE Step("awaitAnalyze", EmptyObj, "none", <<>>,
                  << [imageData |-> imageData, provider |-> provider] >>,
                  provider)

\* What fetch('/api/analyze') comes to: the fetch rejects, or a response
\* with a status arrives whose body is JSON (isJSON) or not.
AnalyzeOutcome(kind, status, isJSON, body) ==
    [kind |-> kind, status |-> status, isJSON |-> isJSON, body |-> body]

RejectedFetch == AnalyzeOutcome("reject", 0, FALSE, EmptyObj)
NoOutcome == AnalyzeOutcome("none", 0, FALSE, EmptyObj)

\* app.js 335-352, the try block as a completion: response.ok is a status
\* in 200..299.
analyzeImageWithAI_try(outcome) ==
    IF outcome.kind = "reject" THEN Throw("fetch failed")
    ELSE IF ~(outcome.status >= 200 /\ outcome.status <= 299)
    THEN Throw("Analysis failed")
    ELSE IF ~outcome.isJSON THEN Throw("SyntaxError")
    ELSE Ret(outcome.body)

\* An orchestrator that lets the error of the analyze call propagate.
analyzeImageWithAI_responseRethrow(outcome, provider, r1, r2) ==
    LET done == analyzeImageWithAI_try(outcome)
    IN  IF done.kind = "throw"
        THEN Step("rejected", EmptyObj, "none", <<>>, <<>>, provider)
        ELSE Step("resolved", done.val, "server", <<>>, <<>>, provider)

\* app.js analyzeImageWithAI (333-366): from the outcome of the analyze
\* fetch to the return.
analyzeImageWithAI_response(outcome, provider, r1, r2) ==
    LET done == analyzeImageWithAI_try(outcome)
    IN  IF done.kind = "throw"
        THEN Step("resolved", getMockAnalysisResult(r1, r2), "mock",
                  << Notification("API Error", "warning") >>, <<>>, provider)
        ELSE Step("resolved", done.val, "server", <<>>, <<>>, provider)

\* ------------------------------------------------------------ rendering
\* The elements of the page that the rendering reads, by id.
ListElements == { "pros-list", "cons-list", "recommendations-section" }

\* app.js updateList (823-834): items.forEach throws on a value that is no
\* array; without the list element nothing is read.
updateList(doc, listId, items) ==
    IF listId \notin doc THEN Ret(0)
    ELSE IF items.t = "arr" THEN Ret(items.n)
    ELSE Throw("TypeError")

\* app.js updateProsAndConsLists (810-814): pros.length and cons.length
\* throw on undefined and null.
updateProsAndConsLists(doc, pros, cons) ==
    IF updateList(doc, "pros-list", pros).kind = "throw"
    THEN Throw("TypeError")
    ELSE IF updateList(doc, "cons-list", cons).kind = "throw"
    THEN Throw("TypeError")
    ELSE IF pros.t \in {"absent", "null"} \/ cons.t \in {"absent", "null"}
    THEN Throw("TypeError")
    ELSE Ret(0)

\* app.js updateRecommendations (780-803): recommendations.map throws on a
\* truthy value that is no array and whose length is not 0.
updateRecommendations(doc, recommendations) ==
    IF "recommendations-section" \notin doc THEN Ret(0)
    ELSE IF ~JTruthy(recommendations) THEN Ret(0)
    ELSE IF recommendations.t = "arr" THEN Ret(recommendations.n)
    ELSE Throw("TypeError")

\* app.js displayAnalysisResults (577-590) as a completion; the rating
\* badge and the product details read members only and do not throw.
displayAnalysisResults(doc, analysisResult) ==
    IF analysisResult.foodDetected = JFalse
    THEN Ret(0)   \* displayNoFoodMessage(analysisResult.message)
    ELSE IF updateProsAndConsLists(doc, analysisResult.pros,
                                   analysisResult.cons).kind = "throw"
    THEN Throw("TypeError")
    ELSE updateRecommendations(doc, analysisResult.recommendations)

\* app.js handleCaptureAndAnalyze (237-249, 270-273), up to the call of
\* analyzeImageWithAI: where the handler is afterwards and what it showed.
\* ui.elements: the capture button and the loading element are there;
\* ui.camera: this.camera is set.
handleCaptureAndAnalyze_begin(ui) ==
    IF ~ui.elements
    THEN [pc |-> "returned", notes |-> << Notification("Error", "error") >>]
    ELSE IF ~ui.camera
    THEN [pc |-> "failed", notes |-> << Notification("Error", "error") >>]
    ELSE [pc |-> "analyzing", notes |-> <<>>]

\* app.js handleCaptureAndAnalyze (251-263), from the settling of
\* analyzeImageWithAI: settled is "resolved" or "rejected".
handleCaptureAndAnalyze_finish(doc, settled, analysisResult) ==
    IF settled = "rejected"
    THEN [pc |-> "failed", notes |-> << Notification("Error", "error") >>]
    ELSE IF displayAnalysisResults(doc, analysisResult).kind = "throw"
    THEN [pc |-> "failed", notes |-> << Notification("Error", "error") >>]
    ELSE [pc |-> "shown", notes |-> <<>>]

\* ------------------------------------------------------ innerHTML writes
\* The characters of the strings of an analysis result that the rendering
\* puts into markup; each is a string-or-undefined value. item stands for
\* every element of pros, cons and recommendations.
NutritionFields ==
    { "estimatedCalories", "protein", "carbs", "fat", "fiber", "sodium" }
NoTexts ==
    [ message |-> Undef, ratingName |-> Undef,
      details |-> [f \in NutritionFields |-> Undef], item |-> Undef ]

\* The serialization of a text node (element.innerHTML), character by
\* character.
RECURSIVE SerializeText(_)
SerializeText(chars) ==
    LET c == Head(chars)
        escaped == CASE c = "&" -> <<"&", "a", "m", "p", ";">>
                     [] c = "<" -> <<"&", "l", "t", ";">>
                     [] c = ">" -> <<"&", "g", "t", ";">>
                     [] OTHER -> << c >>
    IN  IF chars = <<>> THEN <<>>
        ELSE escaped \o SerializeText(Tail(chars))

\* app.js sanitizeText (1116-1120): div.textContent = text (undefined and
\* null give the empty text), then div.innerHTML.
sanitizeText(text) == IF ~text.def THEN <<>> ELSE SerializeText(text.s)

\* `${text}` in a template literal
Interpolate(text) ==
    IF text.def THEN text.s
    ELSE <<"u", "n", "d", "e", "f", "i", "n", "e", "d">>

\* `${text || literal}` in a template literal
InterpolateOr(text, literal) == IF Truthy(text) THEN text.s ELSE literal

\* One assignment to element.innerHTML: the element and the part of the
\* markup that is not a literal of the code.
HtmlWrite(element, html) == [element |-> element, html |-> html]

\* app.js displayNoFoodMessage (596-631)
displayNoFoodMessage(doc, message) ==
    IF "results-section" \notin doc \/ "initial-state" \notin doc THEN {}
    ELSE { HtmlWrite("results-section", Interpolate(message)) }

\* app.js ratingSystemConfig (27-58): the names of the ratings 1..5.
ratingSystemConfig ==
    << <<"P", "r", "e", "m", "i", "u", "m">>,
       <<"H", "i", "g", "h", " ", "S", "t", "a", "n", "d", "a", "r", "d">>,
       <<"S", "t", "a", "n", "d", "a", "r", "d">>,
       <<"I", "m", "p", "r", "o", "v", "e", "m", "e", "n", "t", " ",
         "N", "e", "e", "d", "e", "d">>,
       <<"P", "o", "o", "r">> >>

\* app.js updateRatingBadge (692-706)
updateRatingBadge(doc, rating, ratingName) ==
    IF "rating-badge" \notin doc THEN {}
    ELSE IF ~(rating.t = "num" /\ rating.n \in {10, 20, 30, 40, 50}) THEN {}
    ELSE { HtmlWrite("rating-badge",
                     InterpolateOr(ratingName,
                                   ratingSystemConfig[rating.n \div 10])) }

\* app.js updateNutritionDetails (739-774)
updateNutritionDetails(doc, details) ==
    IF "nutrition-details" \notin doc THEN {}
    ELSE { HtmlWrite("nutrition-details",
                     InterpolateOr(details[f], <<"N", "/", "A">>)) :
             f \in NutritionFields }

\* app.js updateList (823-834) with createListItem (843-858): the list is
\* emptied and every item goes through sanitizeText.
updateList_html(doc, listId, items, item) ==
    IF listId \notin doc THEN {}
    ELSE { HtmlWrite(listId, <<>>) } \cup
         ( IF items.t = "arr" /\ items.n > 0
           THEN { HtmlWrite(listId, sanitizeText(item)) } ELSE {} )

\* app.js updateRecommendations (780-803)
updateRecommendations_html(doc, recommendations, item) ==
    IF updateRecommendations(doc, recommendations) \in { Ret(0), Throw("TypeError") }
    THEN {}
    ELSE { HtmlWrite("recommendations-section", sanitizeText(item)) }

\* app.js displayAnalysisResults (577-590): what it has written to
\* innerHTML when it returns or throws.
displayAnalysisResults_html(doc, analysisResult, texts) ==
    IF analysisResult.foodDetected = JFalse
    THEN displayNoFoodMessage(doc, texts.message)
    ELSE updateRatingBadge(doc, analysisResult.rating, texts.ratingName)
         \cup updateNutritionDetails(doc, texts.details)
         \cup updateList_html(doc, "pros-list", analysisResult.pros, texts.item)
         \cup ( IF updateList(doc, "pros-list", analysisResult.pros).kind = "throw"
                THEN {}
                ELSE updateList_html(doc, "cons-list", analysisResult.cons,
                                     texts.item) )
         \cup ( IF updateProsAndConsLists(doc, analysisResult.pros,
                                          analysisResult.cons).kind = "throw"
                THEN {}
                ELSE updateRecommendations_html(doc,
                         analysisResult.recommendations, texts.item) )

\* ---------------------------------------------------------------- camera
\* An exception value as the camera code reads it: error.name selects the
\* notification text, error.message goes into 'Analysis failed: ...'.
Err(name, message) == [name |-> name, message |-> message]
\* The name of a value that has no name member (the Event a video element
\* passes to onerror).
NoName == "<undefined>"
NoError == Err(NoName, "")

\* A button element: what updateButtonState writes to it.
NoButton == [exists |-> FALSE, disabled |-> FALSE, icon |-> "", text |-> ""]
HtmlButton(text) ==
    [exists |-> TRUE, disabled |-> FALSE, icon |-> "fa-camera", text |-> text]

updateButtonStateNeverDisabled(button, state, text) ==
    IF ~button.exists THEN button
    ELSE [ exists |-> TRUE,
           disabled |-> FALSE,
           icon |-> CASE state = "loading" -> "fa-spinner fa-spin"
                      [] state = "ready" -> "fa-camera-retro"
                      [] OTHER -> "fa-camera",
           text |-> text ]

\* app.js updateButtonState (1054-1066): the button afterwards.
updateButtonState(button, state, text) ==
    IF ~button.exists THEN button
    ELSE [ exists |-> TRUE,
           disabled |-> (state = "loading"),
           icon |-> CASE state = "loading" -> "fa-spinner fa-spin"
                      [] state = "ready" -> "fa-camera-retro"
                      [] OTHER -> "fa-camera",
           text |-> text ]

handleCaptureAndAnalyze_finallyOnSuccess(captureButton, threw) ==
    [ captureButton |-> IF threw THEN captureButton
                        ELSE updateButtonState(captureButton, "ready",
                                               "Capture & Analyze"),
      loadingHidden |-> ~threw ]

\* app.js handleCaptureAndAnalyze (261-262), the finally block: it runs
\* whether or not the try block threw.
handleCaptureAndAnalyze_finally(captureButton, threw) ==
    [ captureButton |-> updateButtonState(captureButton, "ready",
                                          "Capture & Analyze"),
      loadingHidden |-> TRUE ]

\* app.js isCameraSupported (179-181)
isCameraSupported(page) == page.mediaDevices /\ page.getUserMedia

initializeCamera_beginAnyOrigin(page) ==
    IF ~isCameraSupported(page)
    THEN Throw(Err("Error", "Camera API not supported in this browser"))
    ELSE Ret(0)

\* app.js initializeCamera (121-137), up to the call of getUserMedia: the
\* exception thrown before it, or a normal completion when the call is made.
initializeCamera_begin(page) ==
    IF ~isCameraSupported(page)
    THEN Throw(Err("Error", "Camera API not supported in this browser"))
    ELSE IF page.protocol # "https:" /\ page.hostname # "localhost"
    THEN Throw(Err("Error",
                   "HTTPS is required for camera access. Please use https://"))
    ELSE Ret(0)

\* app.js initializeCamera (148-165), from the settling of getUserMedia to
\* the call of waitForVideoLoad: this.cameraStream and this.camera afterwards
\* and how this part completes. media is the completion of getUserMedia.
initializeCamera_stream(page, media, camera, cameraStream) ==
    IF media.kind = "throw"
    THEN [ done |-> Throw(media.val), camera |-> camera,
           cameraStream |-> cameraStream ]
    ELSE IF "camera" \notin page.elements
    THEN [ done |-> Throw(Err("Error", "Camera video element not found")),
           camera |-> "null", cameraStream |-> "stream" ]
    ELSE [ done |-> Ret(0), camera |-> "video", cameraStream |-> "stream" ]

\* A promise of waitForVideoLoad: "none" before the first call, then
\* "pending", "resolved" or "rejected" with the rejection's value.
Promise(state, error) == [state |-> state, error |-> error]

waitForVideoLoad_onLastWins(event, promise, timerArmed) ==
    [ promise |->
          CASE event = "loadedmetadata" ->
                   [state |-> "resolved", error |-> NoError]
            [] event = "error" ->
                   [state |-> "rejected", error |-> Err(NoName, "video error")]
            [] OTHER ->
                   [state |-> "rejected",
                    error |-> Err("Error", "Camera initialization timeout")],
      timerArmed |-> FALSE ]

\* app.js waitForVideoLoad (216-232): the promise and its timer after one of
\* the three callbacks has run. A promise that is settled stays as it is;
\* loadedmetadata and error cancel the timer, and a timer that fired is no
\* longer armed.
waitForVideoLoad_on(event, promise, timerArmed) ==
    [ promise |->
          IF promise.state # "pending" THEN promise
          ELSE CASE event = "loadedmetadata" ->
                        [state |-> "resolved", error |-> NoError]
                 [] event = "error" ->
                        [state |-> "rejected",
                         error |-> Err(NoName, "video error")]
                 [] OTHER ->
                        [state |-> "rejected",
                         error |-> Err("Error", "Camera initialization timeout")],
      timerArmed |-> timerArmed /\ event \notin {"timeout", "loadedmetadata", "error"} ]


\* app.js getCameraErrorMessage (936-970): the message for an exception.
getCameraErrorMessage(error) ==
    CASE error.name = "NotAllowedError" -> "Camera permission denied."
      [] error.name = "NotFoundError" -> "No camera found."
      [] error.name = "NotReadableError" ->
             "Camera is in use by another application."
      [] error.name = "NotSupportedError" ->
             "Camera not supported on this device."
      [] error.name = "SecurityError" ->
             "Camera access blocked by security policy."
      [] OTHER -> "Camera access failed."

\* A showNotification call of the camera code (title, type, message).
Note(title, type, message) ==
    [title |-> title, type |-> type, message |-> message]

\* app.js showCameraErrorNotification (926-929)
showCameraErrorNotification(error) ==
    Note("Camera Error", "error", getCameraErrorMessage(error))

\* app.js handleCameraInitialization (95-104), up to the call of
\* initializeCamera: without the overlay or the button it shows an error and
\* returns.
handleCameraInitialization_begin(page, enableButton) ==
    IF "camera-overlay" \notin page.elements \/ ~enableButton.exists
    THEN [ pc |-> "returned", enableButton |-> enableButton,
           notes |-> << Note("Error", "error", "Camera UI elements not found") >> ]
    ELSE [ pc |-> "initializing",
           enableButton |-> updateButtonState(enableButton, "loading",
                                              "Requesting Access..."),
           notes |-> <<>> ]

handleCameraInitialization_endStillLoading(done, enableButton, overlayHidden) ==
    IF done.kind = "return"
    THEN [ pc |-> "ready", enableButton |-> enableButton,
           overlayHidden |-> TRUE,
           notes |-> << Note("Camera Ready!", "success",
                             "You can now capture and analyze food") >> ]
    ELSE [ pc |-> "failed", enableButton |-> enableButton,
           overlayHidden |-> overlayHidden,
           notes |-> << showCameraErrorNotification(done.val) >> ]

\* app.js handleCameraInitialization (106-114), from the completion of
\* initializeCamera: the try block's tail or the catch block.
handleCameraInitialization_end(done, enableButton, overlayHidden) ==
    IF done.kind = "return"
    THEN [ pc |-> "ready", enableButton |-> enableButton,
           overlayHidden |-> TRUE,
           notes |-> << Note("Camera Ready!", "success",
                             "You can now capture and analyze food") >> ]
    ELSE [ pc |-> "failed",
           enableButton |-> updateButtonState(enableButton, "error",
                                              "Enable Camera"),
           overlayHidden |-> overlayHidden,
           notes |-> << showCameraErrorNotification(done.val) >> ]

\* ------------------------------------------------------------ the inputs
\* process.env keys: unset, empty, and strings on both sides of every test
\* of the two format checks.
KeySamples ==
    { Undef,
      Str(<<>>),
      Str(<<"s", "h", "o", "r", "t">>),
      Str(GeminiTestKey),
      Str(cAIza \o Repeat("k", MinKeyLength - Len(cAIza))),
      Str(cPplx \o Repeat("k", MinKeyLength + 1 - Len(cPplx))),
      Str(PerplexityPlaceholder) }

ProviderSamples == { NoProvider, "gemini", "perplexity", "openai" }

\* Keys for the format checks on their own: every length up to MaxKeyLen
\* of each beginning, filled up with one character, cut to the length.
KeyPrefixes ==
    { cAIza, cPplx, <<"A", "I", "z", "A">>, <<"p", "p", "l", "x", "_">>,
      <<"x">> \o cPplx, <<"i", "n", "v", "a", "l", "i", "d", "-">> }
FillChars == { "k", "x" }
KeyInputs ==
    { Undef, Str(GeminiTestKey), Str(<<"s", "h", "o", "r", "t">>) }
        \cup { Str(SubSeq(p \o Repeat(f, n), 1, n)) :
                   p \in KeyPrefixes, f \in FillChars, n \in 0..MaxKeyLen }

Environments ==
    [ GEMINI_API_KEY : KeySamples, PERPLEXITY_API_KEY : KeySamples,
      DEFAULT_AI_PROVIDER : ProviderSamples ]

\* canvas.toDataURL('image/jpeg', 0.8): a data URI, "data:," for an empty
\* canvas.
CapturedImages == { ImageStr("data:image/jpeg;base64,Zm9v"), ImageStr("data:,") }

\* Bodies a caller of POST /api/analyze can send; a provider of "" is there
\* and falsy, so the destructuring default does not replace it.
PostBodies ==
    [ imageData : CapturedImages \cup { NoImage, ImageStr(""), ImageNum },
      provider : ProviderSamples \cup { "" } ]

fdT == Member("foodDetected", JTrue)
fdF == Member("foodDetected", JFalse)

TokenAlphabet ==
    { Prose, LBrace, RBrace, fdT, fdF,
      Member("foodDetected", JStr("true")),
      Member("rating", JNum(30)), Member("rating", JNum(70)),
      Member("score", JNum(1500)), Member("message", JStr("x")) }

\* Every text of at most n tokens.
Texts(n) == UNION { [1..m -> TokenAlphabet] : m \in 0..n }

\* Further member values a model can supply next to foodDetected: true.
ExtraMembers ==
    { Member("foodDetected", JNull), Member("foodDetected", JNum(10)),
      Member("rating", JNum(0)), Member("rating", JNum(10)),
      Member("rating", JNum(50)), Member("rating", JNum(60)),
      Member("rating", JNum(25)), Member("rating", JStr("3")),
      Member("score", JNum(0)), Member("score", JNum(1000)),
      Member("score", JNum(1010)), Member("score", JNum(-10)),
      Member("score", JStr("80")), Member("healthScore", JNum(1500)),
      Member("healthScore", JNum(505)), Member("pros", JArr(2)),
      Member("cons", JNull), Member("recommendations", JStr("x")) }

ExtraTexts ==
    { <<LBrace, fdT, m, RBrace>> : m \in ExtraMembers }
        \cup { <<Prose, LBrace, m, fdT, RBrace, Prose>> : m \in ExtraMembers }

\* The replies that are no text.
BareReplies ==
    { ProviderReply("reject", FALSE, "notJSON", <<>>),
      ProviderReply("http", FALSE, "notJSON", <<>>),
      ProviderReply("http", TRUE, "notJSON", <<>>),
      ProviderReply("http", TRUE, "noPath", <<>>),
      ProviderReply("http", TRUE, "textAbsent", <<>>),
      ProviderReply("http", TRUE, "textNotString", <<>>) }

TextReplies(texts) == { ProviderReply("http", TRUE, "text", t) : t \in texts }

\* The reply texts the whole-system specification draws from.
SampleTexts ==
    { <<Prose>>,
      <<LBrace, RBrace>>,
      <<LBrace, Prose, RBrace>>,
      <<Prose, LBrace, fdF, Member("message", JStr("x")), RBrace>>,
      <<LBrace, fdF, RBrace, Prose, RBrace>>,
      <<LBrace, fdT, Member("rating", JNum(30)), Member("pros", JArr(2)), RBrace>>,
      <<LBrace, fdT, Member("rating", JNum(70)), Member("score", JNum(1500)), RBrace>>,
      <<LBrace, Member("rating", JNum(30)), RBrace>>,
      <<LBrace, fdT, RBrace>> }

SystemReplies == BareReplies \cup TextReplies(SampleTexts)

NoReply == ProviderReply("none", FALSE, "notJSON", <<>>)

NormInputs ==
    BareReplies \cup TextReplies(Texts(MaxTextLen) \cup ExtraTexts)
        \cup { NoReply }

\* The ids the code looks up with getElementById.
AllElements ==
    { "capture-btn", "enable-camera-btn", "camera-overlay", "camera",
      "loading", "results-section", "initial-state", "rating-badge",
      "nutrition-details" } \cup ListElements

\* A browser page: navigator.mediaDevices and its getUserMedia are there,
\* window.location, and the ids of the elements of the document.
Page(mediaDevices, getUserMedia, protocol, hostname, elements) ==
    [ mediaDevices |-> mediaDevices, getUserMedia |-> getUserMedia,
      protocol |-> protocol, hostname |-> hostname, elements |-> elements ]

SecurePage == Page(TRUE, TRUE, "https:", "foodvision.example", AllElements)

\* Pages on both sides of every test of the camera code: with and without
\* the camera API, on and off HTTPS and localhost, and with one of the
\* elements it looks up missing.
Pages ==
    { Page(m[1], m[2], o[1], o[2], AllElements \ missing) :
        m \in { <<TRUE, TRUE>>, <<TRUE, FALSE>>, <<FALSE, FALSE>> },
        o \in { <<"https:", "foodvision.example">>, <<"http:", "localhost">>,
                <<"http:", "foodvision.example">> },
        missing \in { {}, {"camera-overlay"}, {"camera"}, {"loading"},
                      {"capture-btn"} } }

\* What getUserMedia comes to: a stream, or a rejection with one of the
\* exceptions of the Media Capture API (one that getCameraErrorMessage
\* names and one it does not).
MediaOutcomes ==
    { Ret("stream"),
      Throw(Err("NotAllowedError", "Permission denied")),
      Throw(Err("OverconstrainedError", "Constraints not satisfied")) }

\* Texts with and without markup (the two of src/tests/setup.js 226-252).
PlainText == Str(<<"H", "e", "l", "l", "o">>)
ScriptText == Str(<<"<", "s", "c", "r", "i", "p", "t", ">">>)

\* What analyzeImageWithAI resolves with, and the characters of its strings:
\* a no-food result, a complete dish of the mock catalog, and a detected
\* result without lists (on which the rendering throws).
RenderInputs ==
    { [ result |-> [EmptyObj EXCEPT !.foodDetected = JFalse,
                                   !.message = JStr(NoFoodMessage)],
        texts |-> [NoTexts EXCEPT !.message = t] ] :
        t \in { PlainText, ScriptText } }
    \cup
    { [ result |-> mockData[1],
        texts |-> [ message |-> Undef, ratingName |-> t,
                    details |-> [f \in NutritionFields |-> t],
                    item |-> t ] ] :
        t \in { PlainText, ScriptText } }
    \cup
    { [ result |-> [EmptyObj EXCEPT !.foodDetected = JTrue,
                                   !.rating = JNum(20)],
        texts |-> NoTexts ] }

\* ---------------------------------------------------------------- state
VARIABLES
    env,             \* the server's process.env
    uiPc,            \* handleCaptureAndAnalyze: "idle", "analyzing",
                     \*   "shown", "failed", "returned"
    clientPc,        \* analyzeImageWithAI: "idle", "awaitConfig",
                     \*   "awaitAnalyze", "resolved", "rejected"
    clientImage,     \* its imageData argument
    clientConfigFetch, \* what its fetch of /api/config came to: "none",
                     \*   "reject", "notJSON", "json"
    clientConfig,    \* its config constant
    clientProvider,  \* its provider constant
    clientResponse,  \* what its fetch of /api/analyze came to
    clientResult,    \* the value its promise resolved with
    clientSource,    \* where that value came from: "none", "mock", "server"
    notifications,   \* the showNotification calls, in order
    analyzeRequests, \* the bodies the client sent to /api/analyze
    srvPc,           \* POST /api/analyze handler: "idle", "received",
                     \*   "awaitProvider", "done"
    srvOrigin,       \* who sent the request: "none", "app", "external"
    srvReq,          \* req.body
    srvFetch,        \* the provider fetch the handler awaits
    srvReply,        \* what that fetch came to
    srvResponses,    \* the responses the handler sent, in order
    srvThrew,        \* an exception reached the handler's catch block
    providerCalls,   \* the requests the server sent to AI providers
    nIn,             \* normalizer harness: the provider reply
    nBy,             \* normalizer harness: "none" or the function applied
    nOut,            \* normalizer harness: its completion
    nRand,           \* normalizer harness: the Math.random() draws used
    kKey,            \* key check harness: the apiKey argument
    kProvider,       \* key check harness: the provider argument
    kBy,             \* key check harness: "none" or the function applied
    kOut,            \* key check harness: what it returned
    page,            \* the browser page: navigator, window.location and the
                     \*   ids of the elements of the document
    camPc,           \* handleCameraInitialization: "idle", "awaitMedia",
                     \*   "awaitVideo", "ready", "failed", "returned"
    camera,          \* this.camera: "null" or "video"
    cameraStream,    \* this.cameraStream: "null" or "stream"
    cameraError,     \* the exception its catch block received last
    enableButton,    \* the enable-camera-btn element
    overlayHidden,   \* camera-overlay has the class hidden
    mediaCalls,      \* the getUserMedia calls made so far
    videoPromise,    \* the promise of the last waitForVideoLoad call
    timerArmed,      \* its 5000 ms timer is set and has not fired
    videoLog,        \* the callbacks of that call that have run, in order
    cameraInits,     \* the clicks on enable-camera-btn so far
    cameraNotes,     \* the showNotification calls of the camera code
    captureButton,   \* the capture-btn element
    loadingHidden,   \* the loading element has the class hidden
    runs,            \* the handleCaptureAndAnalyze calls of the page, in the
                     \*   order of the clicks: "returned", "analyzing",
                     \*   "shown" or "failed" each
    runNotes,        \* the showNotification calls of those calls
    displayed,       \* the call whose result was rendered last (0: none)
    htmlWritten      \* the innerHTML writes of that rendering

clientVars ==
    << uiPc, clientPc, clientImage, clientConfigFetch, clientConfig, clientProvider, clientResponse,
       clientResult, clientSource, notifications, analyzeRequests >>
serverVars ==
    << srvPc, srvOrigin, srvReq, srvFetch, srvReply, srvResponses, srvThrew,
       providerCalls >>
normVars == << nIn, nBy, nOut, nRand >>
keyVars == << kKey, kProvider, kBy, kOut >>
camVars ==
    << camPc, camera, cameraStream, cameraError, enableButton, overlayHidden,
       mediaCalls, videoPromise, timerArmed, videoLog, cameraInits,
       cameraNotes >>
capVars ==
    << captureButton, loadingHidden, runs, runNotes, displayed, htmlWritten >>
pageVars == << page, camVars, capVars >>
vars == << env, clientVars, serverVars, normVars, keyVars, pageVars >>

NoBody == [imageData |-> NoImage, provider |-> NoProvider]
NoOut == [kind |-> "none", obj |-> EmptyObj]

Idle ==
    /\ uiPc = "idle"
    /\ clientPc = "idle"
    /\ clientImage = NoImage
    /\ clientConfigFetch = "none"
    /\ clientConfig = NullConfig
    /\ clientProvider = NoProvider
    /\ clientResponse = NoOutcome
    /\ clientResult = EmptyObj
    /\ clientSource = "none"
    /\ notifications = <<>>
    /\ analyzeRequests = <<>>
    /\ srvPc = "idle"
    /\ srvOrigin = "none"
    /\ srvReq = NoBody
    /\ srvFetch = "none"
    /\ srvReply = NoReply
    /\ srvResponses = <<>>
    /\ srvThrew = FALSE
    /\ providerCalls = <<>>

\* The page after the constructor (app.js 20-60) and before any click.
PageLoaded ==
    /\ camPc = "idle"
    /\ camera = "null"
    /\ cameraStream = "null"
    /\ cameraError = NoError
    /\ enableButton = IF "enable-camera-btn" \in page.elements
                      THEN HtmlButton("Enable Camera") ELSE NoButton
    /\ overlayHidden = FALSE
    /\ mediaCalls = 0
    /\ videoPromise = Promise("none", NoError)
    /\ timerArmed = FALSE
    /\ videoLog = <<>>
    /\ cameraInits = 0
    /\ cameraNotes = <<>>
    /\ captureButton = IF "capture-btn" \in page.elements
                       THEN HtmlButton("Capture & Analyze") ELSE NoButton
    /\ loadingHidden = TRUE
    /\ runs = <<>>
    /\ runNotes = <<>>
    /\ displayed = 0
    /\ htmlWritten = {}

NoKeyCheck ==
    /\ kKey = Undef
    /\ kProvider = NoProvider
    /\ kBy = "none"
    /\ kOut = FALSE

\* The server has started with some environment; the page is loaded and no
\* analysis has been asked for.
Init ==
    /\ env \in Environments
    /\ Idle
    /\ nIn = NoReply
    /\ nBy = "none"
    /\ nOut = NoOut
    /\ nRand = <<>>
    /\ NoKeyCheck
    /\ page = SecurePage
    /\ PageLoaded

\* ------------------------------------------------------- client actions
\* The capture button is clicked and handleCaptureAndAnalyze ends before
\* it has an image (app.js 237-245, 270-273, 258-263).
CaptureAbort(ui) ==
    /\ uiPc = "idle"
    /\ srvPc = "idle"
    /\ handleCaptureAndAnalyze_begin(ui).pc # "analyzing"
    /\ uiPc' = handleCaptureAndAnalyze_begin(ui).pc
    /\ notifications' = notifications \o handleCaptureAndAnalyze_begin(ui).notes
    /\ UNCHANGED << env, clientPc, clientImage, clientConfigFetch,
                    clientConfig, clientProvider,
                    clientResponse, clientResult, clientSource,
                    analyzeRequests, serverVars, normVars, keyVars, pageVars >>

\* The capture button is clicked, the image is captured and
\* handleCaptureAndAnalyze calls analyzeImageWithAI(imageData): the config
\* fetch is started (app.js 237-252, 270-289, 297, 374).
ClientStart(imageData) ==
    /\ uiPc = "idle"
    /\ clientPc = "idle"
    /\ srvPc = "idle"
    /\ uiPc' = handleCaptureAndAnalyze_begin(
                   [elements |-> TRUE, camera |-> TRUE]).pc
    /\ clientPc' = "awaitConfig"
    /\ clientImage' = imageData
    /\ UNCHANGED << env, clientConfigFetch, clientConfig, clientProvider,
                    clientResponse,
                    clientResult, clientSource, notifications,
                    analyzeRequests, serverVars, normVars, keyVars, pageVars >>

\* What the config fetch can come to while the server runs with env.
ConfigOutcomes ==
    { ConfigOutcome("reject", NullConfig),
      ConfigOutcome("notJSON", NullConfig),
      ConfigOutcome("json", NullConfig),
      ConfigOutcome("json", EmptyConfig),
      ConfigOutcome("json", ConfigRoute(env)) }

ApplyStep(step) ==
    /\ clientPc' = step.pc
    /\ clientProvider' = step.provider
    /\ clientResult' = step.result
    /\ clientSource' = step.source
    /\ notifications' = notifications \o step.notes
    /\ analyzeRequests' = analyzeRequests \o step.sent

\* The config fetch settles and analyzeImageWithAI runs on to the analyze
\* fetch or to its return (app.js 297-344).
ClientOnConfig(outcome, r1, r2) ==
    /\ clientPc = "awaitConfig"
    /\ LET step == analyzeImageWithAI_config(outcome, clientImage, r1, r2)
       IN  /\ ApplyStep(step)
           /\ clientConfig' = ConfigLocal(getAPIConfigFromServer(outcome))
           /\ clientConfigFetch' = outcome.kind
           /\ IF step.sent # <<>>
              THEN /\ srvPc' = "received"
                   /\ srvOrigin' = "app"
                   /\ srvReq' = step.sent[1]
              ELSE UNCHANGED << srvPc, srvOrigin, srvReq >>
    /\ UNCHANGED << env, uiPc, clientImage, clientResponse, srvFetch,
                    srvReply, srvResponses, srvThrew, providerCalls,
                    normVars, keyVars, pageVars >>

\* The analyze fetch settles (app.js 335-366): with the server's response,
\* with that response's body damaged on the way, or with a network error.
ResponseOutcomes ==
    IF srvPc = "done" /\ srvOrigin = "app" /\ srvResponses # <<>>
    THEN { AnalyzeOutcome("http", srvResponses[1].status, TRUE,
                          srvResponses[1].body),
           AnalyzeOutcome("http", srvResponses[1].status, FALSE, EmptyObj) }
    ELSE {}

ClientOnAnalyze(outcome, r1, r2) ==
    /\ clientPc = "awaitAnalyze"
    /\ ApplyStep(analyzeImageWithAI_response(outcome, clientProvider, r1, r2))
    /\ clientResponse' = outcome
    /\ UNCHANGED << env, uiPc, clientImage, clientConfigFetch, clientConfig,
                    serverVars,
                    normVars, keyVars, pageVars >>

\* analyzeImageWithAI has settled and handleCaptureAndAnalyze runs to its
\* end (app.js 251-263) on the page as it is then.
ClientRender(doc) ==
    /\ uiPc = "analyzing"
    /\ clientPc \in {"resolved", "rejected"}
    /\ LET fin == handleCaptureAndAnalyze_finish(doc, clientPc, clientResult)
       IN  /\ uiPc' = fin.pc
           /\ notifications' = notifications \o fin.notes
    /\ UNCHANGED << env, clientPc, clientImage, clientConfigFetch,
                    clientConfig, clientProvider,
                    clientResponse, clientResult, clientSource,
                    analyzeRequests, serverVars, normVars, keyVars, pageVars >>

\* ------------------------------------------------------- server actions
\* Some other caller posts a body to /api/analyze.
ExternalPost(body) ==
    /\ clientPc = "idle"
    /\ srvPc = "idle"
    /\ srvPc' = "received"
    /\ srvOrigin' = "external"
    /\ srvReq' = body
    /\ UNCHANGED << env, clientVars, srvFetch, srvReply, srvResponses,
                    srvThrew, providerCalls, normVars, keyVars, pageVars >>

\* The handler runs from its entry to its first await or its return
\* (server.js 132-162, 302-379, 438-520).
ServerReceive ==
    /\ srvPc = "received"
    /\ LET b == AnalyzeRoute_begin(srvReq, env)
       IN  /\ srvResponses' = srvResponses \o b.responses
           /\ srvThrew' = b.threw
           /\ srvFetch' = b.fetch
           /\ IF b.fetch = "none"
              THEN /\ srvPc' = "done"
                   /\ UNCHANGED providerCalls
              ELSE /\ srvPc' = "awaitProvider"
                   /\ providerCalls' = Append(providerCalls,
                          [provider |-> b.fetch, key |-> b.key])
    /\ UNCHANGED << env, clientVars, srvOrigin, srvReq, srvReply, normVars, keyVars, pageVars >>

\* The provider fetch settles and the handler runs to its end
\* (server.js 152-171, 381-428, 522-569).
ServerOnProviderReply(reply) ==
    /\ srvPc = "awaitProvider"
    /\ LET r == AnalyzeRoute_resume(srvFetch, reply)
       IN  /\ srvResponses' = srvResponses \o r.responses
           /\ srvThrew' = r.threw
    /\ srvReply' = reply
    /\ srvPc' = "done"
    /\ UNCHANGED << env, clientVars, srvOrigin, srvReq, srvFetch,
                    providerCalls, normVars, keyVars, pageVars >>

\* The server's response reaches the client.
ClientOnResponse ==
    \E outcome \in ResponseOutcomes, r1, r2 \in RandomDraws :
        ClientOnAnalyze(outcome, r1, r2)

\* The network fails the client's fetch while it waits.
ClientOnNetworkError ==
    \E r1, r2 \in RandomDraws : ClientOnAnalyze(RejectedFetch, r1, r2)

ClientNext ==
    \/ \E ui \in [elements : BOOLEAN, camera : BOOLEAN] : CaptureAbort(ui)
    \/ \E imageData \in CapturedImages : ClientStart(imageData)
    \/ \E doc \in SUBSET ListElements : ClientRender(doc)
    \/ \E outcome \in ConfigOutcomes, r1, r2 \in RandomDraws :
           ClientOnConfig(outcome, r1, r2)
    \/ ClientOnResponse
    \/ ClientOnNetworkError

ServerNext ==
    \/ \E body \in PostBodies : ExternalPost(body)
    \/ ServerReceive
    \/ \E reply \in SystemReplies : ServerOnProviderReply(reply)

Next == ClientNext \/ ServerNext

Spec == Init /\ [][Next]_vars

\* Fairness: a handler whose event has arrived runs (the event loops of the
\* browser and of node run every ready callback). Nothing obliges a
\* provider to reply, the network to deliver an error, or the user or
\* another caller to start anything.
FairSpec ==
    /\ Spec
    /\ WF_vars(\E outcome \in ConfigOutcomes, r1, r2 \in RandomDraws :
                   ClientOnConfig(outcome, r1, r2))
    /\ WF_vars(ClientOnResponse)
    /\ WF_vars(\E doc \in SUBSET ListElements : ClientRender(doc))
    /\ WF_vars(ServerReceive)

\* --------------------------------------------- the normalizer on its own
\* One reply of a provider (or none, for the mock generator) and the
\* function applied to it.
InitNorm ==
    /\ env = [ GEMINI_API_KEY |-> Undef, PERPLEXITY_API_KEY |-> Undef,
               DEFAULT_AI_PROVIDER |-> NoProvider ]
    /\ Idle
    /\ nIn \in NormInputs
    /\ nBy = "none"
    /\ nOut = NoOut
    /\ nRand = <<>>
    /\ NoKeyCheck
    /\ page = SecurePage
    /\ PageLoaded

Completed(c) ==
    [ kind |-> c.kind, obj |-> IF c.kind = "return" THEN c.val ELSE EmptyObj ]

NormGemini ==
    /\ nBy = "none"
    /\ nIn # NoReply
    /\ nBy' = "analyzeWithGemini"
    /\ nOut' = Completed(analyzeWithGemini(nIn))
    /\ UNCHANGED << env, clientVars, serverVars, nIn, nRand, keyVars, pageVars >>

NormPerplexity ==
    /\ nBy = "none"
    /\ nIn # NoReply
    /\ nBy' = "analyzeWithPerplexity"
    /\ nOut' = Completed(analyzeWithPerplexity(nIn))
    /\ UNCHANGED << env, clientVars, serverVars, nIn, nRand, keyVars, pageVars >>

NormMock(r1, r2) ==
    /\ nBy = "none"
    /\ nIn = NoReply
    /\ nBy' = "getMockAnalysisResult"
    /\ nOut' = Completed(Ret(getMockAnalysisResult(r1, r2)))
    /\ nRand' = <<r1, r2>>
    /\ UNCHANGED << env, clientVars, serverVars, nIn, keyVars, pageVars >>

NextNorm ==
    \/ NormGemini
    \/ NormPerplexity
    \/ \E r1, r2 \in RandomDraws : NormMock(r1, r2)

SpecNorm == InitNorm /\ [][NextNorm]_vars

\* --------------------------------------------- the key checks on their own
\* One key and one provider argument, and the check applied to them.
InitKeys ==
    /\ env = [ GEMINI_API_KEY |-> Undef, PERPLEXITY_API_KEY |-> Undef,
               DEFAULT_AI_PROVIDER |-> NoProvider ]
    /\ Idle
    /\ nIn = NoReply
    /\ nBy = "none"
    /\ nOut = NoOut
    /\ nRand = <<>>
    /\ kKey \in KeyInputs
    /\ kProvider \in ProviderSamples \cup { "" }
    /\ kBy = "none"
    /\ kOut = FALSE
    /\ page = SecurePage
    /\ PageLoaded

KeyServerPerplexity ==
    /\ kBy = "none"
    /\ kBy' = "Server_isValidAPIKey"
    /\ kOut' = Server_isValidAPIKey(kKey)
    /\ UNCHANGED << env, clientVars, serverVars, normVars, kKey, kProvider, pageVars >>

KeyServerGemini ==
    /\ kBy = "none"
    /\ kBy' = "isValidGeminiAPIKey"
    /\ kOut' = isValidGeminiAPIKey(kKey)
    /\ UNCHANGED << env, clientVars, serverVars, normVars, kKey, kProvider, pageVars >>

KeyClient ==
    /\ kBy = "none"
    /\ kBy' = "App_isValidAPIKey"
    /\ kOut' = App_isValidAPIKey(kKey, kProvider)
    /\ UNCHANGED << env, clientVars, serverVars, normVars, kKey, kProvider, pageVars >>

NextKeys == KeyServerPerplexity \/ KeyServerGemini \/ KeyClient

SpecKeys == InitKeys /\ [][NextKeys]_vars

\* ------------------------------------------------------ the page on its own
\* One page, its camera and its two buttons; no server is involved.
InitPage ==
    /\ env = [ GEMINI_API_KEY |-> Undef, PERPLEXITY_API_KEY |-> Undef,
               DEFAULT_AI_PROVIDER |-> NoProvider ]
    /\ Idle
    /\ nIn = NoReply
    /\ nBy = "none"
    /\ nOut = NoOut
    /\ nRand = <<>>
    /\ NoKeyCheck
    /\ page \in Pages
    /\ PageLoaded

\* app.js setupEventListeners (80-90): the click listeners are there only
\* when both buttons are.
setupEventListeners(elements) ==
    IF "capture-btn" \notin elements \/ "enable-camera-btn" \notin elements
    THEN Throw(Err("Error", "Required UI elements not found"))
    ELSE Ret(0)

\* The handler's state after initializeCamera completed with done.
CameraInitEnds(done) ==
    LET e == handleCameraInitialization_end(done, enableButton, overlayHidden)
    IN  /\ camPc' = e.pc
        /\ enableButton' = e.enableButton
        /\ overlayHidden' = e.overlayHidden
        /\ cameraError' = IF done.kind = "throw" THEN done.val ELSE cameraError
        /\ cameraNotes' = cameraNotes \o e.notes

\* A click on the enable-camera button (a disabled button gets no click):
\* handleCameraInitialization up to its first await that waits for the
\* browser (app.js 95-150).
EnableCameraClick ==
    /\ setupEventListeners(page.elements).kind = "return"
    /\ ~enableButton.disabled
    /\ cameraInits < MaxInits
    /\ cameraInits' = cameraInits + 1
    /\ LET b == handleCameraInitialization_begin(page, enableButton)
           c == initializeCamera_begin(page)
       IN  IF b.pc = "returned"
           THEN /\ camPc' = "returned"
                /\ cameraNotes' = cameraNotes \o b.notes
                /\ UNCHANGED << enableButton, overlayHidden, cameraError,
                                mediaCalls >>
           ELSE IF c.kind = "throw"
           THEN /\ LET e == handleCameraInitialization_end(c, b.enableButton,
                                                           overlayHidden)
                   IN  /\ camPc' = e.pc
                       /\ enableButton' = e.enableButton
                       /\ overlayHidden' = e.overlayHidden
                       /\ cameraError' = c.val
                       /\ cameraNotes' = cameraNotes \o e.notes
                /\ UNCHANGED mediaCalls
           ELSE /\ camPc' = "awaitMedia"
                /\ enableButton' = b.enableButton
                /\ mediaCalls' = mediaCalls + 1
                /\ UNCHANGED << overlayHidden, cameraError, cameraNotes >>
    /\ UNCHANGED << env, clientVars, serverVars, normVars, keyVars, page, capVars,
                    camera, cameraStream, videoPromise, timerArmed,
                    videoLog >>

\* getUserMedia settles (app.js 148-170): on a stream the video element is
\* looked up and waitForVideoLoad arms its timer and sets its two handlers.
MediaSettles(media) ==
    /\ camPc = "awaitMedia"
    /\ LET r == initializeCamera_stream(page, media, camera, cameraStream)
       IN  /\ camera' = r.camera
           /\ cameraStream' = r.cameraStream
           /\ IF r.done.kind = "throw"
              THEN /\ CameraInitEnds(r.done)
                   /\ UNCHANGED << videoPromise, timerArmed, videoLog >>
              ELSE /\ camPc' = "awaitVideo"
                   /\ videoPromise' = Promise("pending", NoError)
                   /\ timerArmed' = TRUE
                   /\ videoLog' = <<>>
                   /\ UNCHANGED << enableButton, overlayHidden, cameraError,
                                   cameraNotes >>
    /\ UNCHANGED << env, clientVars, serverVars, normVars, keyVars, page, capVars,
                    mediaCalls, cameraInits >>

\* One of the callbacks of waitForVideoLoad runs (app.js 216-232); when it
\* settles the promise, initializeCamera and handleCameraInitialization
\* run to their end in the same turn (app.js 170-172, 106-114).
VideoCallback(event) ==
    LET w == waitForVideoLoad_on(event, videoPromise, timerArmed)
    IN  /\ videoLog' = Append(videoLog, event)
        /\ videoPromise' = w.promise
        /\ timerArmed' = w.timerArmed
        /\ IF videoPromise.state = "pending"
           THEN CameraInitEnds(IF w.promise.state = "resolved" THEN Ret(0)
                               ELSE Throw(w.promise.error))
           ELSE UNCHANGED << camPc, enableButton, overlayHidden, cameraError,
                             cameraNotes >>
        /\ UNCHANGED << env, clientVars, serverVars, normVars, keyVars, page, capVars,
                        camera, cameraStream, mediaCalls, cameraInits >>

\* The video element fires loadedmetadata or error; the handlers of the last
\* waitForVideoLoad call stay on the element.
VideoEvent(event) ==
    /\ videoPromise.state # "none"
    /\ Len(videoLog) < MaxEvents
    /\ VideoCallback(event)

\* The 5000 ms of the timer are over.
TimerFires ==
    /\ timerArmed
    /\ VideoCallback("timeout")

\* A click on the capture button (a disabled button gets no click):
\* handleCaptureAndAnalyze up to the call of analyzeImageWithAI, or to its
\* end when it does not get that far (app.js 237-249, 258-263, 270-273).
CaptureClick ==
    /\ setupEventListeners(page.elements).kind = "return"
    /\ ~captureButton.disabled
    /\ Len(runs) < MaxRuns
    /\ LET b == handleCaptureAndAnalyze_begin(
                    [ elements |-> {"capture-btn", "loading"} \subseteq page.elements,
                      camera |-> camera # "null" ])
           loading == updateButtonState(captureButton, "loading",
                                        "Processing...")
           fin == handleCaptureAndAnalyze_finally(loading, TRUE)
       IN  /\ runs' = Append(runs, b.pc)
           /\ runNotes' = runNotes \o b.notes
           /\ IF b.pc = "returned"
              THEN UNCHANGED << captureButton, loadingHidden >>
              ELSE IF b.pc = "failed"
              THEN /\ captureButton' = fin.captureButton
                   /\ loadingHidden' = fin.loadingHidden
              ELSE /\ captureButton' = loading
                   /\ loadingHidden' = FALSE
    /\ UNCHANGED << env, clientVars, serverVars, normVars, keyVars, page,
                    camVars, displayed, htmlWritten >>

\* analyzeImageWithAI of call id resolves with input.result; the handler
\* renders it and runs to its end (app.js 251-263).
AnalysisSettles(id, input) ==
    /\ id \in 1..Len(runs)
    /\ runs[id] = "analyzing"
    /\ LET f == handleCaptureAndAnalyze_finish(page.elements, "resolved",
                                               input.result)
           fin == handleCaptureAndAnalyze_finally(captureButton,
                                                  f.pc = "failed")
       IN  /\ runs' = [runs EXCEPT ![id] = f.pc]
           /\ runNotes' = runNotes \o f.notes
           /\ captureButton' = fin.captureButton
           /\ loadingHidden' = fin.loadingHidden
    /\ displayed' = id
    /\ htmlWritten' = displayAnalysisResults_html(page.elements, input.result,
                                                  input.texts)
    /\ UNCHANGED << env, clientVars, serverVars, normVars, keyVars, page,
                    camVars >>

NextPage ==
    \/ CaptureClick
    \/ \E id \in 1..MaxRuns, input \in RenderInputs : AnalysisSettles(id, input)
    \/ EnableCameraClick
    \/ \E media \in MediaOutcomes : MediaSettles(media)
    \/ \E event \in {"loadedmetadata", "error"} : VideoEvent(event)
    \/ TimerFires

SpecPage == InitPage /\ [][NextPage]_vars

\* A timer that is set fires unless it is cleared, and the network calls of
\* analyzeImageWithAI settle; nothing is assumed of the user, of getUserMedia
\* or of the video element.
FairSpecPage ==
    /\ SpecPage
    /\ WF_vars(TimerFires)
    /\ WF_vars(\E id \in 1..MaxRuns, input \in RenderInputs :
                  AnalysisSettles(id, input))

\* ================================================================ claims
InRange(v, lo, hi) == v.t = "num" /\ v.n % 10 = 0 /\ lo * 10 <= v.n /\ v.n <= hi * 10
IsEnvelope(body) == body.error.t = "str" /\ body.message.t = "str"

SelectedProvider == OrElse(clientConfig.defaultProvider, "gemini")
SelectedKey ==
    IF SelectedProvider = "gemini" THEN clientConfig.geminiApiKey
    ELSE clientConfig.perplexityApiKey
SelectedKeyPassesFormat ==
    IF SelectedProvider = "gemini" THEN isValidGeminiAPIKey(SelectedKey)
    ELSE Server_isValidAPIKey(SelectedKey)

\* C2: when the key of the selected provider (config.defaultProvider, by
\* default 'gemini') is absent or fails that provider's format check,
\* analyzeImageWithAI returns a result of getMockAnalysisResult and no
\* request is sent to /api/analyze.
C2_UnconfiguredReturnsMockWithoutRequest ==
    ( /\ clientPc \notin {"idle", "awaitConfig"}
      /\ ~clientConfig.isNull
      /\ ~SelectedKeyPassesFormat )
    => /\ clientPc = "resolved"
       /\ clientSource = "mock"
       /\ clientResult \in MockResults
       /\ analyzeRequests = <<>>
       /\ srvOrigin # "app"

\* A key is there, fails the format check, and the function has returned.
C2_Witness ==
    /\ clientPc = "resolved"
    /\ ~clientConfig.isNull
    /\ Truthy(SelectedKey)
    /\ ~SelectedKeyPassesFormat

\* The analyze fetch failed: it rejected, answered with a status outside
\* 200..299, or carried a body that cannot be read as JSON.
AnalyzeCallFailed ==
    \/ clientResponse.kind = "reject"
    \/ /\ clientResponse.kind = "http"
       /\ \/ clientResponse.status < 200
          \/ clientResponse.status > 299
          \/ ~clientResponse.isJSON

C4_EveryAnalyzeCallReturns ==
    (clientPc = "awaitAnalyze") ~> (clientPc \in {"resolved", "rejected"})

\* C5: every return of mock data comes with exactly one warning
\* notification that says why: 'Demo Mode' when no request was made (no
\* config, or the provider is not configured) and 'API Error' when the
\* analyze call was made and failed.
C5_FallbackIsAnnounced ==
    clientSource = "mock" =>
        notifications =
            << Notification(IF analyzeRequests = <<>> THEN "Demo Mode"
                            ELSE "API Error", "warning") >>

\* Mock data returned without any request having been sent.
C5_Witness ==
    /\ clientSource = "mock"
    /\ analyzeRequests = <<>>
    /\ ~clientConfig.isNull

\* The provider POST /api/analyze was asked for, and whether its key in the
\* server's environment passes the format check.
RequestedProvider ==
    IF srvReq.provider = NoProvider THEN "gemini" ELSE srvReq.provider
RequestedKeyPassesFormat ==
    IF RequestedProvider = "gemini"
    THEN isValidGeminiAPIKey(env.GEMINI_API_KEY)
    ELSE Server_isValidAPIKey(env.PERPLEXITY_API_KEY)

\* C6: POST /api/analyze answers 400 with {error, message} when imageData
\* is missing and when the key of the requested provider fails its check;
\* in both cases nothing is sent to an AI provider.
C6_BadRequestIs400 ==
    ( /\ srvPc \in {"awaitProvider", "done"}
      /\ ImageFalsy(srvReq.imageData) \/ ~RequestedKeyPassesFormat )
    => /\ srvPc = "done"
       /\ Len(srvResponses) = 1
       /\ srvResponses[1].status = 400
       /\ IsEnvelope(srvResponses[1].body)
       /\ providerCalls = <<>>

\* imageData is missing while the requested provider's key is valid.
C6_Witness ==
    /\ srvPc = "done"
    /\ ImageFalsy(srvReq.imageData)
    /\ RequestedKeyPassesFormat

\* imageData is there, provider is 'gemini', no Gemini key is configured.
GeminiRequestWithoutKey ==
    /\ srvPc = "done"
    /\ ~ImageFalsy(srvReq.imageData)
    /\ srvReq.provider = "gemini"
    /\ ~Truthy(env.GEMINI_API_KEY)

\* C7 as stated: such a request is answered 200 with a mock AnalysisResult.
C7_NoKeyAnswers200Mock ==
    GeminiRequestWithoutKey =>
        /\ Len(srvResponses) = 1
        /\ srvResponses[1].status = 200
        /\ srvResponses[1].body.foodDetected.t = "bool"

\* C7, amended: POST /api/analyze with imageData, provider 'gemini' and no
\* configured Gemini key is answered 400 with the envelope 'Gemini API key
\* not configured', without an AnalysisResult and without a provider call.
C7_NoKeyAnswers400 ==
    GeminiRequestWithoutKey =>
        /\ Len(srvResponses) = 1
        /\ srvResponses[1].status = 400
        /\ srvResponses[1].body.error = JStr("Gemini API key not configured")
        /\ srvResponses[1].body.message.t = "str"
        /\ srvResponses[1].body.foodDetected = Absent
        /\ providerCalls = <<>>

C7_Witness ==
    /\ GeminiRequestWithoutKey
    /\ srvReq.imageData = ImageStr("data:image/jpeg;base64,Zm9v")

\* The provider fetch came to something analyzeWithGemini and
\* analyzeWithPerplexity throw on.
ProviderCallThrew ==
    \/ srvReply.kind = "reject"
    \/ /\ srvReply.kind = "http"
       /\ ~srvReply.ok \/ srvReply.body \in {"notJSON", "noPath"}

\* C8: an exception raised while POST /api/analyze is handled, after the
\* validation, yields exactly one response, a 500 with {error, message};
\* the handler never answers twice and never ends without an answer.
C8_ExceptionIsOne500 ==
    /\ Len(srvResponses) <= 1
    /\ srvPc = "done" => Len(srvResponses) = 1
    /\ (srvPc = "done" /\ (srvThrew \/ ProviderCallThrew)) =>
           /\ srvThrew
           /\ srvResponses[1].status = 500
           /\ IsEnvelope(srvResponses[1].body)

\* A 2xx provider reply without the expected path has been handled.
C8_Witness ==
    /\ srvPc = "done"
    /\ srvReply.ok
    /\ srvReply.body = "noPath"

\* C9: every result of analyzeWithGemini, analyzeWithPerplexity and
\* getMockAnalysisResult has a foodDetected member that is a boolean,
\* whatever the reply text.
C9_FoodDetectedIsBoolean ==
    (nBy # "none" /\ nOut.kind = "return") =>
        nOut.obj.foodDetected.t = "bool"

\* The model wrote "foodDetected": "true" and a result came back.
C9_Witness ==
    /\ nBy = "analyzeWithPerplexity"
    /\ nIn.text = <<LBrace, Member("foodDetected", JStr("true")), RBrace>>
    /\ nOut.kind = "return"

\* C10: in every food-detected result of the normalizer, rating is absent
\* or an integer in 1..5 and the health score (score, healthScore) is
\* absent or an integer in 0..100.
C10_RatingAndScoreInRange ==
    ( /\ nBy \in {"analyzeWithGemini", "analyzeWithPerplexity"}
      /\ nOut.kind = "return"
      /\ nOut.obj.foodDetected = JTrue )
    => /\ nOut.obj.rating = Absent \/ InRange(nOut.obj.rating, 1, 5)
       /\ nOut.obj.score = Absent \/ InRange(nOut.obj.score, 0, 100)
       /\ nOut.obj.healthScore = Absent
              \/ InRange(nOut.obj.healthScore, 0, 100)

\* C11: a food-detected result is structurally complete: its pros, cons
\* and recommendations are sequences (empty when the model left them out),
\* so once analyzeImageWithAI has returned one, displayAnalysisResults
\* renders it and handleCaptureAndAnalyze does not end in its catch block.
C11_DetectedResultRenders ==
    ( /\ uiPc \in {"shown", "failed"}
      /\ clientPc = "resolved"
      /\ clientResult.foodDetected = JTrue )
    => /\ clientResult.pros.t = "arr"
       /\ clientResult.cons.t = "arr"
       /\ clientResult.recommendations.t = "arr"
       /\ uiPc = "shown"

\* C12: the response normalizer never throws for malformed model output:
\* for every 2xx reply of the provider with a JSON body, also one whose
\* JSON lacks the text path or whose text is no string, analyzeWithGemini
\* and analyzeWithPerplexity return a result object.
C12_NormalizerNeverThrows ==
    ( /\ nBy \in {"analyzeWithGemini", "analyzeWithPerplexity"}
      /\ nIn.kind = "http"
      /\ nIn.ok
      /\ nIn.body # "notJSON" )
    => /\ nOut.kind = "return"
       /\ nOut.obj.foodDetected.t = "bool"

\* The reply was a 2xx with a text, and a normalizer was applied to it.
NormalizedText ==
    /\ nBy \in {"analyzeWithGemini", "analyzeWithPerplexity"}
    /\ nIn.kind = "http"
    /\ nIn.ok
    /\ nIn.body = "text"

\* The text has a '{' with a '}' somewhere after it.
HasBraceSpan(text) ==
    \E i, j \in 1..Len(text) : i < j /\ text[i].c = "{" /\ text[j].c = "}"

\* The text holds no parsable JSON object: no brace span, or the span from
\* its first '{' to its last '}' is rejected by JSON.parse.
NoParsableObject(text) ==
    \/ ~HasBraceSpan(text)
    \/ JSONParse(MatchBraces(text).span).kind = "throw"

\* C13 as stated: every text without a parsable JSON object gives the one
\* result {foodDetected: false, message: 'unable to analyze'}.
C13_UnparsableIsUnableToAnalyze ==
    (NormalizedText /\ NoParsableObject(nIn.text)) =>
        nOut = [ kind |-> "return",
                 obj |-> [EmptyObj EXCEPT !.foodDetected = JFalse,
                              !.message = JStr(UnableToAnalyzeMessage)] ]

\* C13, amended: a text without a parsable JSON object gives a result of
\* foodDetected false and a message only; the message is the 'Unable to
\* analyze image' one when the text has no '{...}' span and the 'Error
\* analyzing image' one when the span fails JSON parsing.
C13_UnparsableIsNoFoodWithMessage ==
    (NormalizedText /\ NoParsableObject(nIn.text)) =>
        nOut = [ kind |-> "return",
                 obj |-> [EmptyObj EXCEPT !.foodDetected = JFalse,
                              !.message =
                                  IF HasBraceSpan(nIn.text)
                                  THEN JStr(ErrorAnalyzingMessage)
                                  ELSE JStr(UnableToAnalyzeMessage)] ]

\* A '{...}' span that is no JSON has been normalized.
C13_Witness ==
    /\ NormalizedText
    /\ nIn.text = <<Prose, LBrace, Prose, RBrace>>
    /\ nOut.kind = "return"

\* The object JSON.parse makes of the text's brace span.
ParsedObject(text) == JSONParse(MatchBraces(text).span).val

\* The text's brace span parses and its foodDetected member is missing or
\* no boolean.
FoodDetectedUndetermined(text) ==
    /\ HasBraceSpan(text)
    /\ ~NoParsableObject(text)
    /\ ParsedObject(text).foodDetected.t # "bool"

\* C14: when the extracted JSON parses and its foodDetected member is
\* missing or no boolean ("true", 1, null), the normalizer returns
\* {foodDetected: false, message: 'unable to determine'} and none of the
\* other members the model wrote.
C14_NonBooleanIsUndetermined ==
    (NormalizedText /\ FoodDetectedUndetermined(nIn.text)) =>
        nOut = [ kind |-> "return",
                 obj |-> [EmptyObj EXCEPT !.foodDetected = JFalse,
                              !.message = JStr(UnableToDetermineMessage)] ]

\* The model wrote "foodDetected": "true" next to a rating.
C14_Witness ==
    /\ NormalizedText
    /\ nIn.text = << LBrace, Member("foodDetected", JStr("true")),
                     Member("rating", JNum(30)), RBrace >>
    /\ nOut.kind = "return"

\* C15: when the parsed JSON has foodDetected = false, the normalizer
\* returns foodDetected false with a message: the model's message when it
\* gave one and a default message when it gave none.
C15_NoFoodCarriesMessage ==
    ( /\ NormalizedText
      /\ HasBraceSpan(nIn.text)
      /\ ~NoParsableObject(nIn.text)
      /\ ParsedObject(nIn.text).foodDetected = JFalse )
    => /\ nOut.kind = "return"
       /\ nOut.obj.foodDetected = JFalse
       /\ nOut.obj.message.t = "str"
       /\ ParsedObject(nIn.text).message.t = "str" =>
              nOut.obj.message = ParsedObject(nIn.text).message

\* Nesting depth after token j of a scan that starts at token i.
DepthAt(text, i, j) ==
    Cardinality({ k \in i..j : text[k].c = "{" })
        - Cardinality({ k \in i..j : text[k].c = "}" })

\* The first complete balanced '{...}' span of a text: from its first '{'
\* to the first token that brings the depth back to 0.
HasBalancedSpan(text) ==
    \E i, j \in 1..Len(text) :
        /\ text[i].c = "{"
        /\ \A k \in 1..(i - 1) : text[k].c # "{"
        /\ j > i
        /\ DepthAt(text, i, j) = 0

FirstBalancedSpan(text) ==
    LET i == CHOOSE a \in 1..Len(text) :
                 text[a].c = "{" /\ \A k \in 1..(a - 1) : text[k].c # "{"
        ends == { b \in (i + 1)..Len(text) : DepthAt(text, i, b) = 0 }
        j == CHOOSE b \in ends : \A c \in ends : b <= c
    IN  SubSeq(text, i, j)

\* C16: the normalizer extracts the first complete balanced '{...}' span of
\* the reply text: when that span is a JSON object with a boolean
\* foodDetected, the result is that object, whatever follows it (prose with
\* another '}', a second '{...}' fragment).
C16_FirstBalancedSpanIsUsed ==
    ( /\ NormalizedText
      /\ HasBalancedSpan(nIn.text)
      /\ JSONParse(FirstBalancedSpan(nIn.text)).kind = "return"
      /\ JSONParse(FirstBalancedSpan(nIn.text)).val.foodDetected.t = "bool" )
    => nOut = [ kind |-> "return",
                obj |-> JSONParse(FirstBalancedSpan(nIn.text)).val ]

\* The two format rules, on a key as a string of characters.
WellFormedPerplexityKey(key) ==
    /\ key.def
    /\ Len(key.s) > 20
    /\ \A i \in 1..5 : key.s[i] = <<"p", "p", "l", "x", "-">>[i]
    /\ ~(Len(key.s) = 45 /\ \A i \in 6..45 : key.s[i] = "x")
WellFormedGeminiKey(key) ==
    /\ key.def
    /\ Len(key.s) > 20
    /\ \A i \in 1..4 : key.s[i] = <<"A", "I", "z", "a">>[i]

\* C17: key validation looks at the format only and follows the same rules
\* on client and server: a Perplexity key is valid iff it is present,
\* starts with 'pplx-', is not 'pplx-' followed by 40 'x' and is longer
\* than 20; a Gemini key is valid iff it is present, starts with 'AIza' and
\* is longer than 20; 'AIzaSyTESTKEY1234567890' is valid, 'short' is not.
C17_KeyRulesOnBothSides ==
    /\ kBy = "Server_isValidAPIKey" => (kOut <=> WellFormedPerplexityKey(kKey))
    /\ kBy = "isValidGeminiAPIKey" => (kOut <=> WellFormedGeminiKey(kKey))
    /\ (kBy = "App_isValidAPIKey" /\ kProvider = "gemini") =>
           (kOut <=> WellFormedGeminiKey(kKey))
    /\ (kBy = "App_isValidAPIKey" /\ kProvider = "perplexity") =>
           (kOut <=> WellFormedPerplexityKey(kKey))
    /\ (kBy \in {"isValidGeminiAPIKey", "App_isValidAPIKey"}
          /\ kProvider = "gemini") =>
           /\ kKey = Str(GeminiTestKey) => kOut
           /\ kKey = Str(<<"s", "h", "o", "r", "t">>) => ~kOut

\* The server has checked a Perplexity key of 21 characters.
C17_Witness ==
    /\ kBy = "Server_isValidAPIKey"
    /\ kKey = Str(cPplx \o Repeat("k", 16))
    /\ kOut

\* The key has neither of the two known beginnings.
NoKnownPrefix(key) ==
    ~key.def \/ (~StartsWith(key.s, cPplx) /\ ~StartsWith(key.s, cAIza))

\* C18: FoodVisionApp.isValidAPIKey called with a key and no provider
\* argument accepts every well-formed Perplexity key and rejects the
\* placeholder key and the keys without a known prefix.
C18_KeyOnlyCallAcceptsPerplexityKeys ==
    (kBy = "App_isValidAPIKey" /\ kProvider = NoProvider) =>
        /\ WellFormedPerplexityKey(kKey) => kOut
        /\ kKey = Str(PerplexityPlaceholder) => ~kOut
        /\ NoKnownPrefix(kKey) => ~kOut

\* Draw k stands for the number (2k + 1) / (2 * RandRes); it lies in the
\* 30% band when that number is above 0.7.
InDetectBand(k) == (2 * k + 1) * 10 > 7 * 2 * RandRes

\* A catalog entry is complete: foodDetected true, a rating in 1..5, a
\* healthScore in 0..100, non-empty pros, cons and recommendations.
CompleteDish(d) ==
    /\ d.foodDetected = JTrue
    /\ InRange(d.rating, 1, 5)
    /\ InRange(d.healthScore, 0, 100)
    /\ d.pros.t = "arr" /\ d.pros.n > 0
    /\ d.cons.t = "arr" /\ d.cons.n > 0
    /\ d.recommendations.t = "arr" /\ d.recommendations.n > 0

\* C19: getMockAnalysisResult returns a food-detected result exactly when
\* its first random draw falls in the 30% band (above 0.7) and
\* {foodDetected: false, 'no food detected' message} otherwise; a
\* food-detected result is one entry of a fixed catalog of at least 3
\* complete dishes; the band holds 30% of the draws, to within one draw.
C19_MockDetectsInThirtyPercentBand ==
    nBy = "getMockAnalysisResult" =>
        /\ nOut.kind = "return"
        /\ Len(mockData) >= 3
        /\ \A i \in 1..Len(mockData) : CompleteDish(mockData[i])
        /\ IF InDetectBand(nRand[1])
           THEN \E i \in 1..Len(mockData) : nOut.obj = mockData[i]
           ELSE nOut.obj = [EmptyObj EXCEPT !.foodDetected = JFalse,
                                !.message = JStr(NoFoodMessage)]
        /\ LET hits == Cardinality({ k \in RandomDraws : InDetectBand(k) })
           IN  /\ 10 * hits <= 3 * RandRes + 10
               /\ 10 * hits >= 3 * RandRes - 10

\* The generator has returned the third dish of its catalog.
C19_Witness ==
    /\ nBy = "getMockAnalysisResult"
    /\ InDetectBand(nRand[1])
    /\ nOut.obj = mockData[3]

\* C20: the provider API keys stay on the server: nothing the client has
\* received (the /api/config body it holds in particular) contains the
\* value of GEMINI_API_KEY or PERPLEXITY_API_KEY.
C20_KeysStayServerSide ==
    clientPc \notin {"idle", "awaitConfig"} =>
        /\ Truthy(env.GEMINI_API_KEY) =>
               /\ clientConfig.geminiApiKey # env.GEMINI_API_KEY
               /\ clientConfig.perplexityApiKey # env.GEMINI_API_KEY
        /\ Truthy(env.PERPLEXITY_API_KEY) =>
               /\ clientConfig.perplexityApiKey # env.PERPLEXITY_API_KEY
               /\ clientConfig.geminiApiKey # env.PERPLEXITY_API_KEY

\* A fetch of the run was rejected by the network: the config fetch or the
\* analyze fetch.
FetchRejected ==
    clientConfigFetch = "reject" \/ clientResponse.kind = "reject"

\* C22: when the network fetch rejects during handleCaptureAndAnalyze, the
\* user is shown an error notification ('Analysis failed: ...', which only
\* the catch block of handleCaptureAndAnalyze shows).
C22_RejectedFetchShowsError ==
    (uiPc \in {"shown", "failed"} /\ FetchRejected) =>
        \E i \in 1..Len(notifications) :
            notifications[i] = Notification("Error", "error")

\* C24: OpenAI is a provider of its own: with DEFAULT_AI_PROVIDER=openai
\* an analysis of the client goes to an OpenAI path with the OpenAI key,
\* not to the Gemini or Perplexity path and not with their keys.
C24_OpenAIHasItsOwnPath ==
    ( /\ env.DEFAULT_AI_PROVIDER = "openai"
      /\ srvOrigin = "app"
      /\ providerCalls # <<>> ) =>
        /\ providerCalls[1].provider = "openai"
        /\ providerCalls[1].key # env.PERPLEXITY_API_KEY
        /\ providerCalls[1].key # env.GEMINI_API_KEY

\* The verdict of the validator POST /api/analyze selects for a provider
\* value (undefined takes the destructuring default 'gemini').
ServerVerdict(key, provider) ==
    IF provider = NoProvider \/ provider = "gemini"
    THEN isValidGeminiAPIKey(key)
    ELSE Server_isValidAPIKey(key)

C28_ClientRequestPassesKeyCheck ==
    (srvOrigin = "app" /\ srvPc \in {"awaitProvider", "done"}) =>
        /\ RequestedKeyPassesFormat
        /\ \A i \in 1..Len(srvResponses) : srvResponses[i].status # 400

CameraApiPresent == page.mediaDevices /\ page.getUserMedia
SecureOrigin == page.protocol = "https:" \/ page.hostname = "localhost"

\* C25: getUserMedia is called only on a page where the camera API is there
\* and whose origin is HTTPS or localhost; on every other page a click on
\* the enable button that reaches initializeCamera ends in the failed state
\* with no camera request made.
C25_CameraRequestOnlyWhenSupportedAndSecure ==
    /\ mediaCalls > 0 => (CameraApiPresent /\ SecureOrigin)
    /\ (camPc \notin {"idle", "returned"} /\ ~(CameraApiPresent /\ SecureOrigin)) =>
           (camPc = "failed" /\ mediaCalls = 0)

C25_Witness ==
    /\ mediaCalls > 0
    /\ page.protocol = "http:"
    /\ page.hostname = "localhost"

\* C23: when camera initialization has failed, for whatever reason, the
\* handler has ended in its catch block: the last notification is the
\* camera error notification for the exception caught, the overlay is still
\* visible, and the enable button is enabled and reads 'Enable Camera'.
C23_FailedInitIsReported ==
    camPc = "failed" =>
        /\ cameraError # NoError
        /\ cameraNotes # <<>>
        /\ cameraNotes[Len(cameraNotes)].title = "Camera Error"
        /\ cameraNotes[Len(cameraNotes)].type = "error"
        /\ cameraNotes[Len(cameraNotes)].message =
               ( IF cameraError.name = "NotAllowedError"
                 THEN "Camera permission denied."
                 ELSE "Camera access failed." )
        /\ ~overlayHidden
        /\ enableButton.exists
        /\ ~enableButton.disabled
        /\ enableButton.text = "Enable Camera"

C23_Witness ==
    /\ camPc = "failed"
    /\ cameraError = Err("Error", "Camera initialization timeout")
    /\ cameraInits = 1

\* What the promise of waitForVideoLoad must be after its first callback.
DecidedBy(event) ==
    CASE event = "loadedmetadata" -> [state |-> "resolved", error |-> NoError]
      [] event = "error" ->
             [state |-> "rejected", error |-> Err(NoName, "video error")]
      [] OTHER ->
             [state |-> "rejected",
              error |-> Err("Error", "Camera initialization timeout")]

VideoLoadDecidedByFirst ==
    videoPromise.state # "none" =>
        /\ (videoPromise.state = "pending") <=> (videoLog = <<>>)
        /\ videoLog # <<>> => videoPromise = DecidedBy(videoLog[1])
        /\ timerArmed => videoLog = <<>>
        /\ \A i \in 2..Len(videoLog) : videoLog[i] # "timeout"
        /\ camPc = "awaitVideo" <=> videoPromise.state = "pending"

\* C30: the promise of waitForVideoLoad is decided by the first of its
\* callbacks to run (resolved on loadedmetadata, rejected with the video's
\* error on error, rejected with 'Camera initialization timeout' when the
\* timer fires) and no later callback changes it; either event cancels the
\* timer, so the timer never fires after a decision; and an initialization
\* that waits for the video always ends, with the camera ready or failed.
C30_VideoLoadSettlesOnce ==
    /\ []VideoLoadDecidedByFirst
    /\ (camPc = "awaitVideo") ~> (camPc \in {"ready", "failed"})

C30_Witness ==
    /\ videoLog = << "error", "loadedmetadata" >>
    /\ videoPromise.state = "rejected"
    /\ camPc = "failed"

\* C29: after a camera initialization that failed (and so while none has
\* completed successfully), no call of handleCaptureAndAnalyze gets past
\* captureImageFromCamera: none is analyzing and none has rendered a result,
\* so every one ended at the element check or with 'Camera not initialized'.
C29_NoCaptureBeforeCameraReady ==
    camPc = "failed" =>
        /\ \A i \in 1..Len(runs) : runs[i] \in {"returned", "failed"}
        /\ displayed = 0

InProgress == { i \in 1..Len(runs) : runs[i] = "analyzing" }

\* C26: with clicks delivered only to an enabled button, at most one call of
\* handleCaptureAndAnalyze is in progress; the capture button is disabled
\* exactly while one is; and a call still in progress is never older than
\* the call whose result is displayed, so no earlier analysis can overwrite
\* a later result.
C26_OneRunAtATime ==
    /\ Cardinality(InProgress) <= 1
    /\ captureButton.disabled <=> (InProgress # {})
    /\ \A i \in InProgress : displayed < i

C26_Witness ==
    /\ Len(runs) = 2
    /\ runs[1] = "shown"
    /\ displayed = 1
    /\ runs[2] = "analyzing"

\* Call i of handleCaptureAndAnalyze, having passed the element check, ends
\* in this step.
EndsNow(i) ==
    /\ i <= Len(runs')
    /\ runs'[i] \in {"shown", "failed"}
    /\ (i > Len(runs) \/ runs[i] = "analyzing")

\* C27: every call of handleCaptureAndAnalyze that passes the element check
\* ends, given that the network calls of analyzeImageWithAI settle, and the
\* step that ends it, by a return or by an exception, leaves the capture
\* button enabled as 'Capture & Analyze' with the ready icon and the loading
\* element hidden.
C27_RunEndsWithButtonReady ==
    /\ [][ \A i \in 1..MaxRuns : EndsNow(i) =>
               /\ captureButton'.exists
               /\ ~captureButton'.disabled
               /\ captureButton'.icon = "fa-camera-retro"
               /\ captureButton'.text = "Capture & Analyze"
               /\ loadingHidden' ]_vars
    /\ \A i \in 1..MaxRuns :
           (i <= Len(runs) /\ runs[i] = "analyzing")
               ~> (i <= Len(runs) /\ runs[i] \in {"shown", "failed"})

C27_Witness ==
    /\ Len(runs) = 1
    /\ runs[1] = "failed"
    /\ displayed = 1
    /\ ~captureButton.disabled
    /\ loadingHidden

RECURSIVE HasChar(_, _)
HasChar(chars, c) ==
    IF chars = <<>> THEN FALSE
    ELSE Head(chars) = c \/ HasChar(Tail(chars), c)

\* C21: no string of an analysis result reaches innerHTML with markup in
\* it: whatever the rendering of a result has written, on the no-food path
\* and on the detected path, holds no '<' that came from the result.
C21_ResultStringsAreSanitized ==
    \A w \in htmlWritten : ~HasChar(w.html, "<")

\* C21, the part about sanitizeText itself: what it returns holds no '<',
\* and it returns '' for undefined.
C21_SanitizeTextEscapes ==
    /\ \A w \in htmlWritten :
           w.element \in ListElements => ~HasChar(w.html, "<")
    /\ sanitizeText(Undef) = <<>>
    /\ sanitizeText(ScriptText) = <<"&", "l", "t", ";", "s", "c", "r", "i", "p", "t", "&", "g", "t", ";">>

====
